---- MODULE Spec2Model ----
(***************************************************************************)
(* Overlord-rust: the reservation ledger (src/src/units/tasks.rs), the     *)
(* task planner / action executor / completion reconciliation systems and  *)
(* the path following systems (src/src/pathfinding.rs).                    *)
(*                                                                         *)
(* Positions are tile coordinates <<x, y>>: a Vec2 tile position           *)
(* (x + 0.5, y + 0.5) is written as its tile <<x, y>>.  Distances are      *)
(* compared through their squares.                                         *)
(***************************************************************************)
EXTENDS Integers, Sequences, FiniteSets, TLC

VARIABLES
    reserved,        \* Reservations.reserved : chest -> owner -> kind -> qty
    chest_inv,       \* Inventory of every provider chest : chest -> kind -> qty
    last,            \* history: the last ledger call, its arguments, result and the ledger before it
    granted,         \* history: chest -> kind -> sum of the qty of the try_reserve calls that returned true
    lastStock,       \* history: chest -> kind -> stock supplied to the most recent successful try_reserve (-1: none)
    lastPosStock,    \* history: the same, for the most recent successful try_reserve with qty >= 1
    req_inv,         \* Inventory of the requester chest
    pos,             \* unit -> tile of its Transform
    unit_inv,        \* unit -> Inventory
    action_queue,    \* unit -> ActionQueue
    current_action,  \* unit -> CurrentAction {action, initialized}
    current_task,    \* unit -> CurrentTask {task, initialized}
    agent,           \* unit -> PathfindingAgent {target, path}
    available,       \* unit -> whether it carries the Available marker
    done,            \* the FixedUpdate systems that already ran in the current tick
    frame            \* "fixed": between FixedUpdate systems; "update": inside the Update chain

historyVars == <<last, granted, lastStock, lastPosStock>>

pipelineVars == <<req_inv, pos, unit_inv, action_queue, current_action, current_task,
                  agent, available, done, frame>>

vars == <<reserved, chest_inv, last, granted, lastStock, lastPosStock,
          req_inv, pos, unit_inv, action_queue, current_action, current_task,
          agent, available, done, frame>>

----------------------------------------------------------------------------
(* Bounds of the model *)

MaxStock == 2        \* largest stock of one kind in one chest
MaxQty == 2          \* largest quantity passed to try_reserve / release

(* Entities and item kinds *)

Units == {"u1", "u2"}
Chests == {"c1", "c2"}
ItemKind == {"Rock"}

(* Option<T>: None is the empty sequence, Some(x) the sequence <<x>> *)
None == << >>
Some(x) == <<x>>
IsSome(o) == o # << >>
Unwrap(o) == o[1]

EmptyMap == << >>

(* initial values of the history variables *)
NoCall == [op |-> "init"]
ZeroGrant == [c \in Chests |-> [k \in ItemKind |-> 0]]
NoStock == [c \in Chests |-> [k \in ItemKind |-> -1]]

----------------------------------------------------------------------------
(* HashMap helpers *)

Get(m, k, d) == IF k \in DOMAIN m THEN m[k] ELSE d

Put(m, k, v) == [x \in (DOMAIN m) \cup {k} |-> IF x = k THEN v ELSE m[x]]

Remove(m, k) == [x \in (DOMAIN m) \ {k} |-> m[x]]

RECURSIVE SumOver(_, _)
SumOver(S, m) ==
    IF S = {} THEN 0
    ELSE LET x == CHOOSE y \in S : TRUE
         IN m[x] + SumOver(S \ {x}, m)

saturating_sub(a, b) == IF a >= b THEN a - b ELSE 0

Min(a, b) == IF a <= b THEN a ELSE b

----------------------------------------------------------------------------
(* Inventory (stackable items) *)

count(inv, kind) == Get(inv, kind, 0)

InventoryOf(kind, qty) == [k \in {kind} |-> qty]

----------------------------------------------------------------------------
(* Reservations *)

total_reserved_first_owner_only(res, chest, kind) ==
    IF chest \in DOMAIN res /\ DOMAIN res[chest] # {}
    THEN LET o == CHOOSE x \in DOMAIN res[chest] : TRUE
         IN Get(res[chest][o], kind, 0)
    ELSE 0

total_reserved(res, chest, kind) ==
    IF chest \in DOMAIN res
    THEN LET owner_map == res[chest]
         IN SumOver(DOMAIN owner_map,
                    [o \in DOMAIN owner_map |-> Get(owner_map[o], kind, 0)])
    ELSE 0

owner_reserved(res, owner, chest, kind) ==
    IF chest \in DOMAIN res
    THEN IF owner \in DOMAIN res[chest]
         THEN Get(res[chest][owner], kind, 0)
         ELSE 0
    ELSE 0

try_reserve_off_by_one(res, owner, chest, kind, qty, inv) ==
    LET free == saturating_sub(count(inv, kind), total_reserved(res, chest, kind))
    IN IF free <= qty
       THEN [ok |-> FALSE, reserved |-> res]
       ELSE LET owner_map == Get(res, chest, EmptyMap)
                kind_map == Get(owner_map, owner, EmptyMap)
            IN [ok |-> TRUE,
                reserved |-> Put(res, chest, Put(owner_map, owner,
                                 Put(kind_map, kind, Get(kind_map, kind, 0) + qty)))]

try_reserve_ignores_reserved(res, owner, chest, kind, qty, inv) ==
    IF count(inv, kind) < qty
    THEN [ok |-> FALSE, reserved |-> res]
    ELSE LET owner_map == Get(res, chest, EmptyMap)
             kind_map == Get(owner_map, owner, EmptyMap)
         IN [ok |-> TRUE,
             reserved |-> Put(res, chest, Put(owner_map, owner,
                              Put(kind_map, kind, Get(kind_map, kind, 0) + qty)))]

try_reserve_own_claims_only(res, owner, chest, kind, qty, inv) ==
    LET free == saturating_sub(count(inv, kind), owner_reserved(res, owner, chest, kind))
    IN IF free < qty
       THEN [ok |-> FALSE, reserved |-> res]
       ELSE LET owner_map == Get(res, chest, EmptyMap)
                kind_map == Get(owner_map, owner, EmptyMap)
            IN [ok |-> TRUE,
                reserved |-> Put(res, chest, Put(owner_map, owner,
                                 Put(kind_map, kind, Get(kind_map, kind, 0) + qty)))]

try_reserve(res, owner, chest, kind, qty, inv) ==
    LET total == total_reserved(res, chest, kind)
        chest_available == count(inv, kind)
        free == saturating_sub(chest_available, total)
    IN IF free < qty
       THEN [ok |-> FALSE, reserved |-> res]
       ELSE LET owner_map == Get(res, chest, EmptyMap)
                kind_map == Get(owner_map, owner, EmptyMap)
            IN [ok |-> TRUE,
                reserved |-> Put(res, chest, Put(owner_map, owner,
                                 Put(kind_map, kind, Get(kind_map, kind, 0) + qty)))]

release_leaves_zero(res, owner, chest, kind, qty) ==
    IF chest \in DOMAIN res /\ owner \in DOMAIN res[chest]
       /\ kind \in DOMAIN res[chest][owner]
    THEN Put(res, chest, Put(res[chest], owner,
             Put(res[chest][owner], kind, saturating_sub(res[chest][owner][kind], qty))))
    ELSE res

(* release with a plain subtraction in place of saturating_sub *)
release_unsaturated(res, owner, chest, kind, qty) ==
    IF chest \notin DOMAIN res THEN res
    ELSE IF owner \notin DOMAIN res[chest] THEN res
    ELSE IF kind \notin DOMAIN res[chest][owner] THEN res
    ELSE LET v == res[chest][owner][kind] - qty
             kind_map == IF v = 0 THEN Remove(res[chest][owner], kind)
                         ELSE Put(res[chest][owner], kind, v)
             owner_map == IF DOMAIN kind_map = {} THEN Remove(res[chest], owner)
                          ELSE Put(res[chest], owner, kind_map)
         IN IF DOMAIN owner_map = {} THEN Remove(res, chest)
            ELSE Put(res, chest, owner_map)

release(res, owner, chest, kind, qty) ==
    IF chest \in DOMAIN res
    THEN LET owner_map ==
                 IF owner \in DOMAIN res[chest]
                 THEN LET km == res[chest][owner]
                          kind_map ==
                              IF kind \in DOMAIN km
                              THEN LET v == saturating_sub(km[kind], qty)
                                   IN IF v = 0 THEN Remove(km, kind)
                                      ELSE Put(km, kind, v)
                              ELSE km
                      IN IF DOMAIN kind_map = {}
                         THEN Remove(res[chest], owner)
                         ELSE Put(res[chest], owner, kind_map)
                 ELSE res[chest]
         IN IF DOMAIN owner_map = {} THEN Remove(res, chest)
            ELSE Put(res, chest, owner_map)
    ELSE res

(* release_all_for_owner that clears every chest the owner appears in *)
release_all_for_owner_clears_chest(res, owner) ==
    LET kept == {c \in DOMAIN res : owner \notin DOMAIN res[c]}
    IN [c \in kept |-> res[c]]

release_all_for_owner(res, owner) ==
    LET stripped == [c \in DOMAIN res |-> Remove(res[c], owner)]
        chests_to_clear == {c \in DOMAIN res : DOMAIN stripped[c] = {}}
    IN [c \in (DOMAIN res) \ chests_to_clear |-> stripped[c]]

----------------------------------------------------------------------------
(* The map: tiles, structures, coordinates *)

Tile(x, y) == <<x, y>>

(* the part of the world the units live in; a ring of walls encloses it *)
Region == {Tile(x, y) : x \in 0..3, y \in 0..0}
Ring == {Tile(x, y) : x \in -1..4, y \in -1..1} \ Region

ChestTile == [c \in Chests |-> IF c = "c1" THEN Tile(3, 0) ELSE Tile(2, 1)]
RequesterTile == Tile(0, 0)

(* StructureManager.structures: the tiles that hold a structure *)
Structures == Ring \cup {ChestTile[c] : c \in Chests} \cup {RequesterTile}

is_tile_passable_always(t, sm) == TRUE

is_tile_passable(t, sm) == t \notin sm

get_neighbors(tile) ==
    {Tile(tile[1] + dx, tile[2] + dy) : dx \in -1..1, dy \in -1..1} \ {tile}

Abs(a) == IF a >= 0 THEN a ELSE -a

Sign(a) == IF a > 0 THEN 1 ELSE IF a < 0 THEN -1 ELSE 0

DistSq(a, b) == (a[1] - b[1]) * (a[1] - b[1]) + (a[2] - b[2]) * (a[2] - b[2])

(* floor of the square root *)
RECURSIVE ISqrtBetween(_, _, _)
ISqrtBetween(n, lo, hi) ==
    IF lo >= hi THEN lo
    ELSE CHOOSE r \in {IF mid * mid <= n THEN ISqrtBetween(n, mid, hi)
                       ELSE ISqrtBetween(n, lo, mid - 1) :
                          mid \in {(lo + hi + 1) \div 2}} : TRUE

(* f32 costs are kept in units of 1/1000 *)
CostScale == 1000
OrthogonalCost == 1000
DiagonalCost == 1414

----------------------------------------------------------------------------
(* Pathfinding *)

is_diagonal(from, to) == Abs(from[1] - to[1]) = 1 /\ Abs(from[2] - to[2]) = 1

heuristic(a, b) == ISqrtBetween(DistSq(a, b) * CostScale * CostScale, 0, 46340)

f_cost(node) == node.g_cost + node.h_cost

RECURSIVE reconstruct_path(_, _)
reconstruct_path(all_nodes, current) ==
    IF current \notin DOMAIN all_nodes THEN << >>
    ELSE LET node == all_nodes[current]
         IN IF node.parent = None THEN <<node.pos>>
            ELSE Append(reconstruct_path(all_nodes, Unwrap(node.parent)), node.pos)

(* the directions vector of find_nearest_passable_tile, in push order *)
substitute_directions(approach_dir) ==
    LET moving == approach_dir[1] # 0 \/ approach_dir[2] # 0
    IN (IF moving THEN <<Tile(-approach_dir[1], -approach_dir[2])>> ELSE << >>)
       \o (IF approach_dir[1] # 0 THEN <<Tile(0, 1), Tile(0, -1)>> ELSE << >>)
       \o (IF approach_dir[2] # 0 THEN <<Tile(1, 0), Tile(-1, 0)>> ELSE << >>)
       \o <<Tile(-1, -1), Tile(1, -1), Tile(-1, 1), Tile(1, 1)>>
       \o (IF moving THEN <<approach_dir>> ELSE << >>)

find_nearest_passable_tile(target, start, sm) ==
    LET approach_dir == Tile(Sign(target[1] - start[1]), Sign(target[2] - start[2]))
        directions == substitute_directions(approach_dir)
        n == Len(directions)
        candidate(i) ==
            LET radius == ((i - 1) \div n) + 1
                dir == directions[((i - 1) % n) + 1]
            IN Tile(target[1] + dir[1] * radius, target[2] + dir[2] * radius)
        hits == {i \in 1..(5 * n) : is_tile_passable(candidate(i), sm)}
    IN IF hits = {} THEN None
       ELSE Some(candidate(CHOOSE i \in hits : \A j \in hits : i <= j))

BASE_LIMIT == 500
PER_TILE_LIMIT == 40
MAX_LIMIT == 20000

corner_blocked_both(cur, nb, sm) ==
    /\ ~is_tile_passable(Tile(cur[1], nb[2]), sm)
    /\ ~is_tile_passable(Tile(nb[1], cur[2]), sm)

(* !is_tile_passable(corner_1) || !is_tile_passable(corner_2) *)
corner_blocked(cur, nb, sm) ==
    \/ ~is_tile_passable(Tile(cur[1], nb[2]), sm)
    \/ ~is_tile_passable(Tile(nb[1], cur[2]), sm)

best_nodes_start(all_nodes) == {p \in DOMAIN all_nodes : all_nodes[p].parent = None}

best_nodes_farthest(all_nodes) ==
    {p \in DOMAIN all_nodes :
        \A q \in DOMAIN all_nodes : all_nodes[p].h_cost >= all_nodes[q].h_cost}

(* all_nodes.values().min_by(h_cost): the nodes of least h_cost *)
best_nodes(all_nodes) ==
    {p \in DOMAIN all_nodes :
        \A q \in DOMAIN all_nodes : all_nodes[p].h_cost <= all_nodes[q].h_cost}

(* the neighbour loop of one expansion: the open set and all_nodes after  *)
(* current_node's neighbours were examined                                 *)
expand_neighbors(current_node, open_set, all_nodes, goal, sm) ==
    LET cur == current_node.pos
        corner_ok(nb) == is_diagonal(cur, nb) => ~corner_blocked(cur, nb, sm)
        reachable == {nb \in get_neighbors(cur) :
                         corner_ok(nb) /\ is_tile_passable(nb, sm)}
        new_g_cost(nb) ==
            current_node.g_cost
              + (IF is_diagonal(cur, nb) THEN DiagonalCost ELSE OrthogonalCost)
        improved == {nb \in reachable :
                        nb \in DOMAIN all_nodes
                        /\ new_g_cost(nb) < all_nodes[nb].g_cost}
        fresh == {nb \in reachable : nb \notin DOMAIN all_nodes}
        node_of(nb) ==
            [pos |-> nb, g_cost |-> new_g_cost(nb),
             h_cost |-> IF nb \in fresh THEN heuristic(nb, goal)
                        ELSE all_nodes[nb].h_cost,
             parent |-> Some(cur)]
    IN [all_nodes |-> [p \in (DOMAIN all_nodes) \cup fresh |->
                          IF p \in improved \cup fresh THEN node_of(p)
                          ELSE all_nodes[p]],
        open_set |-> open_set \cup {node_of(nb) : nb \in improved \cup fresh}]

(* dist_tiles.round(): the integer nearest to the distance *)
round_distance(a, b) == (ISqrtBetween(4 * DistSq(a, b), 0, 46340) + 1) \div 2

max_expansions_uncapped(start_grid, actual_end_grid) ==
    BASE_LIMIT + round_distance(start_grid, actual_end_grid) * PER_TILE_LIMIT

(* BASE_LIMIT + per_tile_extra * PER_TILE_LIMIT, at most MAX_LIMIT *)
max_expansions_of(start_grid, actual_end_grid) ==
    Min(BASE_LIMIT + round_distance(start_grid, actual_end_grid) * PER_TILE_LIMIT, MAX_LIMIT)

(* The A* loop.  BinaryHeap::pop returns some node of least f_cost and      *)
(* min_by over HashMap::values some node of least h_cost: which one, among  *)
(* equals, is not fixed by the code, so the search yields a set of results. *)
RECURSIVE a_star(_, _, _, _, _, _)
RECURSIVE a_star_expand(_, _, _, _, _, _, _)
a_star(open_set, all_nodes, expansions, goal, max_expansions, sm) ==
    IF open_set = {} THEN {None}
    ELSE LET least == {n \in open_set : \A m \in open_set : f_cost(n) <= f_cost(m)}
         IN UNION {a_star_expand(n, open_set \ {n}, all_nodes, expansions + 1,
                                 goal, max_expansions, sm) : n \in least}

a_star_expand(current_node, open_set, all_nodes, expansions, goal, max_expansions, sm) ==
    IF expansions > max_expansions
    THEN {Some(reconstruct_path(all_nodes, p)) : p \in best_nodes(all_nodes)}
    ELSE IF current_node.pos = goal
    THEN {Some(reconstruct_path(all_nodes, goal))}
    ELSE LET next == expand_neighbors(current_node, open_set, all_nodes, goal, sm)
         IN a_star(next.open_set, next.all_nodes, expansions, goal, max_expansions, sm)

(* the set of values find_path(start, end) may return: None or Some(path) *)
find_path(start_grid, end_grid, sm) ==
    LET substitute == find_nearest_passable_tile(end_grid, start_grid, sm)
        actual_end_grid ==
            IF ~is_tile_passable(end_grid, sm)
            THEN (IF substitute = None THEN start_grid ELSE Unwrap(substitute))
            ELSE end_grid
        max_expansions == max_expansions_of(start_grid, actual_end_grid)
        start_node == [pos |-> start_grid, g_cost |-> 0,
                       h_cost |-> heuristic(start_grid, actual_end_grid),
                       parent |-> None]
    IN a_star({start_node}, [p \in {start_grid} |-> start_node], 0,
              actual_end_grid, max_expansions, sm)

----------------------------------------------------------------------------
(* Inventory transfers, reach *)

add_overwrites(inv, kind, quantity) == [inv EXCEPT ![kind] = quantity]

add(inv, kind, quantity) == [inv EXCEPT ![kind] = @ + quantity]

(* Inventory::remove: removes only when enough is held *)
remove(inv, kind, quantity) ==
    IF inv[kind] >= quantity THEN [inv EXCEPT ![kind] = @ - quantity] ELSE inv

BONUS_RANGE_TENTHS == 8      \* BONUS_RANGE = 0.8
UNIT_REACH == 1
PATH_TOLERANCE_TENTHS == 1   \* path_tolerance = 0.1

within_reach_always(a, b) == TRUE

(* distance <= BONUS_RANGE + UNIT_REACH *)
within_reach(a, b) ==
    DistSq(a, b) * 100
      <= (BONUS_RANGE_TENTHS + UNIT_REACH * 10) * (BONUS_RANGE_TENTHS + UNIT_REACH * 10)

(* distance <= agent.path_tolerance *)
at_waypoint(a, b) ==
    DistSq(a, b) * 100 <= PATH_TOLERANCE_TENTHS * PATH_TOLERANCE_TENTHS

----------------------------------------------------------------------------
(* Actions and tasks *)

Requesters == {"rq"}

MoveTo(tile) == [type |-> "MoveTo", target_pos |-> tile]
Take(kind, quantity, from) ==
    [type |-> "Take", kind |-> kind, quantity |-> quantity, from |-> from]
Drop(kind, quantity, to) ==
    [type |-> "Drop", kind |-> kind, quantity |-> quantity, to |-> to]

(* Task::new: status Pending *)
NewTask(task_kind, kind, quantity) ==
    [kind |-> task_kind, item |-> kind, quantity |-> quantity, status |-> "Pending"]

(* Task::new(TaskKind::Action(action)) *)
ActionTask(action) == [kind |-> "Action", action |-> action, status |-> "Pending"]

(* the tasks an assigner may hand out *)
TaskKinds == {"GetItems", "DeliverItems"}

NewTasks == {NewTask(task_kind, kind, quantity) :
                task_kind \in TaskKinds, kind \in ItemKind, quantity \in 1..MaxQty}

(* the components the systems read and write, as one value *)
World ==
    [reserved |-> reserved, chest_inv |-> chest_inv, req_inv |-> req_inv,
     pos |-> pos, unit_inv |-> unit_inv, action_queue |-> action_queue,
     current_action |-> current_action, current_task |-> current_task,
     agent |-> agent, available |-> available]

Becomes(W) ==
    /\ reserved' = W.reserved
    /\ chest_inv' = W.chest_inv
    /\ req_inv' = W.req_inv
    /\ pos' = W.pos
    /\ unit_inv' = W.unit_inv
    /\ action_queue' = W.action_queue
    /\ current_action' = W.current_action
    /\ current_task' = W.current_task
    /\ agent' = W.agent
    /\ available' = W.available

(* the orders in which a query may visit a set of entities *)
Orders(S) == {o \in [1..Cardinality(S) -> S] : \A i, j \in DOMAIN o : i # j => o[i] # o[j]}

SetStatus(W, u, status) ==
    [W EXCEPT !.current_task[u].task = Some([Unwrap(@) EXCEPT !.status = status])]

----------------------------------------------------------------------------
(* find_best_chest *)

chest_available_ignores_reserved(W, chest_ent, kind) ==
    count(W.chest_inv[chest_ent], kind)

(* real_quantity.saturating_sub(already_reserved) *)
chest_available(W, chest_ent, kind) ==
    LET real_quantity == count(W.chest_inv[chest_ent], kind)
        already_reserved == total_reserved(W.reserved, chest_ent, kind)
    IN saturating_sub(real_quantity, already_reserved)

skip_chest_never(avail) == FALSE

(* if available == 0 { continue; } *)
skip_chest(avail) == avail = 0

is_closer_or_farther(dist, best_dist) == dist # best_dist

(* if dist < *best_dist *)
is_closer(dist, best_dist) == dist < best_dist

RECURSIVE find_best_chest_loop(_, _, _, _, _, _, _, _)
find_best_chest_loop(i, chest_order, unit_tile_pos, desired_quantity, kind, W, best_with_enough, best_any) ==
    IF i > Len(chest_order)
    THEN IF IsSome(best_with_enough) THEN best_with_enough
         ELSE IF IsSome(best_any) THEN best_any
         ELSE None
    ELSE LET chest_ent == chest_order[i]
             chest_tile == ChestTile[chest_ent]
             dist == DistSq(unit_tile_pos, chest_tile)
             avail == chest_available(W, chest_ent, kind)
             this == Some([ent |-> chest_ent, tile |-> chest_tile,
                           qty |-> avail, dist |-> dist])
             closer(best) == best = None \/ is_closer(dist, Unwrap(best).dist)
         IN IF skip_chest(avail)
            THEN find_best_chest_loop(i + 1, chest_order, unit_tile_pos,
                                      desired_quantity, kind, W,
                                      best_with_enough, best_any)
            ELSE IF avail >= desired_quantity
            THEN find_best_chest_loop(i + 1, chest_order, unit_tile_pos,
                                      desired_quantity, kind, W,
                                      IF closer(best_with_enough) THEN this
                                      ELSE best_with_enough,
                                      best_any)
            ELSE find_best_chest_loop(i + 1, chest_order, unit_tile_pos,
                                      desired_quantity, kind, W,
                                      best_with_enough,
                                      IF closer(best_any) THEN this ELSE best_any)

find_best_chest(unit_tile_pos, desired_quantity, kind, chest_order, W) ==
    find_best_chest_loop(1, chest_order, unit_tile_pos, desired_quantity, kind, W,
                         None, None)

----------------------------------------------------------------------------
(* actions_decompose_planner *)

planner_never_skips(task) == FALSE

(* only Pending tasks are decomposed *)
planner_skips(task) == task.status # "Pending"

already_holds_strictly_more(have, quantity) == have > quantity

(* enough in the unit's inventory *)
already_holds(have, quantity) == have >= quantity

acquire_actions_take_first(chest_tile_pos, kind, take_qty, chest_ent) ==
    <<Take(kind, take_qty, chest_ent), MoveTo(chest_tile_pos)>>

(* Plan actions: MoveTo -> Take *)
acquire_actions(chest_tile_pos, kind, take_qty, chest_ent) ==
    <<MoveTo(chest_tile_pos), Take(kind, take_qty, chest_ent)>>

deliver_actions_drop_first(req_pos, kind, quantity, requester_ent) ==
    <<Drop(kind, quantity, requester_ent), MoveTo(req_pos)>>

(* plan MoveTo -> Drop *)
deliver_actions(req_pos, kind, quantity, requester_ent) ==
    <<MoveTo(req_pos), Drop(kind, quantity, requester_ent)>>

take_quantity_uncapped(needed, avail) == needed

(* std::cmp::min(needed, available) *)
take_quantity(needed, avail) == Min(needed, avail)

plan_get_items(W, u, task, chest_order) ==
    LET kind == task.item
        quantity == task.quantity
        have == count(W.unit_inv[u], kind)
    IN IF already_holds(have, quantity)
       THEN SetStatus(W, u, "Completed")
       ELSE LET needed == quantity - have
                found == find_best_chest(W.pos[u], needed, kind, chest_order, W)
            IN IF found = None
               THEN SetStatus(W, u, "Failed")
               ELSE LET chest_ent == Unwrap(found).ent
                        chest_tile_pos == Unwrap(found).tile
                        take_qty == take_quantity(needed, Unwrap(found).qty)
                    IN IF chest_ent \notin DOMAIN W.chest_inv
                       THEN SetStatus(W, u, "Failed")
                       ELSE LET r == try_reserve(W.reserved, u, chest_ent, kind,
                                                 take_qty, W.chest_inv[chest_ent])
                            IN IF r.ok
                               THEN [W EXCEPT
                                       !.reserved = r.reserved,
                                       !.action_queue[u] =
                                           @ \o acquire_actions(chest_tile_pos, kind,
                                                               take_qty, chest_ent),
                                       !.current_task[u] =
                                           [task |-> Some([task EXCEPT !.status = "Planned"]),
                                            initialized |-> TRUE],
                                       !.available[u] = FALSE]
                               ELSE [SetStatus(W, u, "Failed") EXCEPT
                                       !.reserved = release_all_for_owner(W.reserved, u)]

plan_deliver_items(W, u, task) ==
    IF Cardinality(Requesters) = 1
    THEN LET requester_ent == CHOOSE r \in Requesters : TRUE
         IN [W EXCEPT
               !.action_queue[u] =
                   @ \o deliver_actions(RequesterTile, task.item, task.quantity,
                                       requester_ent),
               !.current_task[u] =
                   [task |-> Some([task EXCEPT !.status = "Planned"]),
                    initialized |-> TRUE],
               !.available[u] = FALSE]
    ELSE SetStatus(W, u, "Failed")

(* TaskKind::Action: the wrapped action goes to the queue as it is *)
plan_action(W, u, task) ==
    [W EXCEPT !.action_queue[u] = Append(@, task.action),
              !.current_task[u].task = Some([task EXCEPT !.status = "Planned"]),
              !.available[u] = FALSE]

(* the planner's loop body for one unit *)
plan_unit(W, u, chest_order) ==
    IF W.current_task[u].task = None THEN W
    ELSE LET task == Unwrap(W.current_task[u].task)
         IN IF planner_skips(task) THEN W
            ELSE IF task.kind = "GetItems"
            THEN plan_get_items(W, u, task, chest_order)
            ELSE IF task.kind = "DeliverItems"
            THEN plan_deliver_items(W, u, task)
            ELSE plan_action(W, u, task)

RECURSIVE actions_decompose_planner(_, _, _, _)
actions_decompose_planner(W, unit_order, i, chest_order) ==
    IF i > Len(unit_order) THEN W
    ELSE actions_decompose_planner(plan_unit(W, unit_order[i], chest_order),
                                   unit_order, i + 1, chest_order)

----------------------------------------------------------------------------
(* assign_next_action_or_set_available *)

assign_unit(W, u) ==
    IF W.available[u] THEN W
    ELSE IF W.current_action[u].action # None THEN W
    ELSE IF W.action_queue[u] # << >>
    THEN [W EXCEPT
            !.current_action[u] = [action |-> Some(Head(W.action_queue[u])),
                                   initialized |-> FALSE],
            !.action_queue[u] = Tail(@)]
    ELSE [W EXCEPT !.available[u] = TRUE]

RECURSIVE assign_next_action_or_set_available(_, _, _)
assign_next_action_or_set_available(W, unit_order, i) ==
    IF i > Len(unit_order) THEN W
    ELSE assign_next_action_or_set_available(assign_unit(W, unit_order[i]),
                                             unit_order, i + 1)

----------------------------------------------------------------------------
(* process_current_action *)

to_release_whole_claim(reserved_by_owner, quantity_to_take) == reserved_by_owner

(* consume up to quantity_to_take from the reservation *)
to_release(reserved_by_owner, quantity_to_take) ==
    Min(reserved_by_owner, quantity_to_take)

ClearAction(W, u) == [W EXCEPT !.current_action[u].action = None]

(* one-time setup of a new current action *)
initialize_action(W, u) ==
    IF W.current_action[u].initialized THEN W
    ELSE LET action == Unwrap(W.current_action[u].action)
             armed == IF action.type = "MoveTo"
                      THEN [W EXCEPT !.agent[u] = [target |-> Some(action.target_pos),
                                                   path |-> << >>]]
                      ELSE W
         IN [armed EXCEPT !.current_action[u].initialized = TRUE]

execute_move_to_ignores_path(W, u, action) ==
    IF within_reach(W.pos[u], action.target_pos)
    THEN [W EXCEPT !.current_action[u].action = None,
                   !.agent[u] = [target |-> None, path |-> << >>]]
    ELSE W

execute_move_to(W, u, action) ==
    IF W.agent[u].path = << >> /\ within_reach(W.pos[u], action.target_pos)
    THEN [W EXCEPT !.current_action[u].action = None,
                   !.agent[u] = [target |-> None, path |-> << >>]]
    ELSE W

execute_take(W, u, action) ==
    LET kind == action.kind
        from == action.from
    IN IF from \in DOMAIN W.chest_inv
       THEN IF ~within_reach(ChestTile[from], W.pos[u])
            THEN ClearAction(W, u)
            ELSE LET available_quantity == count(W.chest_inv[from], kind)
                     quantity_to_take == Min(action.quantity, available_quantity)
                     reserved_by_owner == owner_reserved(W.reserved, u, from, kind)
                 IN IF quantity_to_take = 0
                    THEN ClearAction(
                           [W EXCEPT !.reserved =
                               IF reserved_by_owner > 0
                               THEN release(W.reserved, u, from, kind, reserved_by_owner)
                               ELSE W.reserved], u)
                    ELSE ClearAction(
                           [W EXCEPT
                              !.chest_inv[from] = remove(@, kind, quantity_to_take),
                              !.unit_inv[u] = add(@, kind, quantity_to_take),
                              !.reserved =
                                  IF reserved_by_owner > 0
                                  THEN release(W.reserved, u, from, kind,
                                               to_release(reserved_by_owner,
                                                          quantity_to_take))
                                  ELSE W.reserved], u)
       ELSE ClearAction(W, u)

execute_drop(W, u, action) ==
    LET kind == action.kind
    IN IF action.to \in Requesters
       THEN IF ~within_reach(RequesterTile, W.pos[u])
            THEN ClearAction(W, u)
            ELSE LET available_quantity == count(W.unit_inv[u], kind)
                     quantity_to_take == Min(action.quantity, available_quantity)
                 IN IF quantity_to_take = 0
                    THEN ClearAction(W, u)
                    ELSE ClearAction(
                           [W EXCEPT
                              !.unit_inv[u] = remove(@, kind, quantity_to_take),
                              !.req_inv = add(@, kind, quantity_to_take)], u)
       ELSE ClearAction(W, u)

(* the executor's loop body for one unit *)
execute_unit(W, u) ==
    IF W.current_action[u].action = None THEN W
    ELSE LET W1 == initialize_action(W, u)
             action == Unwrap(W1.current_action[u].action)
         IN CASE action.type = "MoveTo" -> execute_move_to(W1, u, action)
              [] action.type = "Take" -> execute_take(W1, u, action)
              [] action.type = "Drop" -> execute_drop(W1, u, action)

RECURSIVE process_current_action(_, _, _)
process_current_action(W, unit_order, i) ==
    IF i > Len(unit_order) THEN W
    ELSE process_current_action(execute_unit(W, unit_order[i]), unit_order, i + 1)

----------------------------------------------------------------------------
(* update_task_completion *)

FinalizeTask_keeps_claims(W, u) ==
    [W EXCEPT !.current_task[u] = [task |-> None, initialized |-> FALSE],
              !.available[u] = TRUE]

FinalizeTask(W, u) ==
    [W EXCEPT !.reserved = release_all_for_owner(W.reserved, u),
              !.current_task[u] = [task |-> None, initialized |-> FALSE],
              !.available[u] = TRUE]

complete_unit(W, u) ==
    IF W.current_task[u].task = None THEN W
    ELSE LET status == Unwrap(W.current_task[u].task).status
         IN IF status \in {"Planned", "InProgress"}
            THEN IF W.action_queue[u] = << >> /\ W.current_action[u].action = None
                 THEN FinalizeTask(W, u)
                 ELSE W
            ELSE IF status = "Failed"
            THEN FinalizeTask(W, u)
            ELSE W

RECURSIVE update_task_completion(_, _, _)
update_task_completion(W, unit_order, i) ==
    IF i > Len(unit_order) THEN W
    ELSE update_task_completion(complete_unit(W, unit_order[i]), unit_order, i + 1)

----------------------------------------------------------------------------
(* pathfinding_system, movement_system *)

(* the values pathfinding_system may leave in a unit's PathfindingAgent *)
pathfinding_agent_results(W, u, sm) ==
    IF W.agent[u].target # None /\ W.agent[u].path = << >>
    THEN {IF new_path = None THEN [target |-> None, path |-> << >>]
          ELSE [target |-> W.agent[u].target, path |-> Unwrap(new_path)]
            : new_path \in find_path(W.pos[u], Unwrap(W.agent[u].target), sm)}
    ELSE {W.agent[u]}

(* movement_system's loop body for one unit; a move towards the next   *)
(* waypoint, one tile away, lands on it                                *)
move_unit(W, u) ==
    IF W.agent[u].path = << >> THEN W
    ELSE LET next_waypoint == Head(W.agent[u].path)
         IN IF at_waypoint(W.pos[u], next_waypoint)
            THEN IF Tail(W.agent[u].path) = << >>
                 THEN [W EXCEPT !.agent[u] = [target |-> None, path |-> << >>],
                                !.current_task[u].task = None]
                 ELSE [W EXCEPT !.agent[u].path = Tail(@)]
            ELSE [W EXCEPT !.pos[u] = next_waypoint]

RECURSIVE movement_system(_, _, _)
movement_system(W, unit_order, i) ==
    IF i > Len(unit_order) THEN W
    ELSE movement_system(move_unit(W, unit_order[i]), unit_order, i + 1)

----------------------------------------------------------------------------
(* Task assignment: test_find_2_rocks / test_deliver_2_rocks, for any unit *)
(* the query may visit first and any quantity                             *)

may_assign_always(W, u) == TRUE

may_assign(W, u) ==
    IF W.current_task[u].task = None THEN TRUE
    ELSE Unwrap(W.current_task[u].task).status \in {"Completed", "Failed"}

assign_task(W, u, task_kind, kind, quantity) ==
    IF may_assign(W, u)
    THEN [W EXCEPT !.current_task[u] =
                       [task |-> Some(NewTask(task_kind, kind, quantity)),
                        initialized |-> FALSE]]
    ELSE W

----------------------------------------------------------------------------
(* The tick pipeline *)

FixedSystems == {"planner", "executor", "completion", "assign_next"}

(* .before / .after constraints among the task systems *)
Before == {<<"planner", "executor">>, <<"executor", "completion">>}

CanRun(sys) ==
    /\ frame = "fixed"
    /\ sys \notin done
    /\ \A c \in Before : c[2] = sys => c[1] \in done

Ran(sys) ==
    /\ done' = IF done \cup {sys} = FixedSystems THEN {} ELSE done \cup {sys}
    /\ frame' = frame

UnitStart == [u \in Units |-> IF u = "u1" THEN Tile(1, 0) ELSE Tile(2, 0)]

PipelineInit ==
    /\ reserved = EmptyMap
    /\ chest_inv \in [Chests -> [ItemKind -> 0..MaxStock]]
    /\ last = NoCall
    /\ granted = ZeroGrant
    /\ lastStock = NoStock
    /\ lastPosStock = NoStock
    /\ req_inv = [k \in ItemKind |-> 0]
    /\ pos = UnitStart
    /\ unit_inv = [u \in Units |-> [k \in ItemKind |-> 0]]
    /\ action_queue = [u \in Units |-> << >>]
    /\ current_action = [u \in Units |-> [action |-> None, initialized |-> FALSE]]
    /\ current_task = [u \in Units |-> [task |-> None, initialized |-> FALSE]]
    /\ agent = [u \in Units |-> [target |-> None, path |-> << >>]]
    /\ available = [u \in Units |-> FALSE]
    /\ done = {}
    /\ frame = "fixed"

(* test_find_2_rocks while key E is held: a GetItems task for the unit the *)
(* query visits first, when its slot is empty or its task is over         *)
TestFind ==
    /\ frame = "fixed"
    /\ \E u \in Units, kind \in ItemKind, quantity \in 1..MaxQty :
          /\ may_assign(World, u)
          /\ Becomes(assign_task(World, u, "GetItems", kind, quantity))
    /\ UNCHANGED <<historyVars, done, frame>>

Planner ==
    /\ CanRun("planner")
    /\ \E unit_order \in Orders(Units), chest_order \in Orders(Chests) :
          Becomes(actions_decompose_planner(World, unit_order, 1, chest_order))
    /\ Ran("planner")
    /\ UNCHANGED historyVars

Executor ==
    /\ CanRun("executor")
    /\ \E unit_order \in Orders(Units) :
          Becomes(process_current_action(World, unit_order, 1))
    /\ Ran("executor")
    /\ UNCHANGED historyVars

Completion ==
    /\ CanRun("completion")
    /\ \E unit_order \in Orders(Units) :
          Becomes(update_task_completion(World, unit_order, 1))
    /\ Ran("completion")
    /\ UNCHANGED historyVars

AssignNext ==
    /\ CanRun("assign_next")
    /\ \E unit_order \in Orders(Units) :
          Becomes(assign_next_action_or_set_available(World, unit_order, 1))
    /\ Ran("assign_next")
    /\ UNCHANGED historyVars

(* the Update chain runs between FixedUpdate ticks: pathfinding_system, then movement_system *)
PathfindingSystem ==
    /\ frame = "fixed"
    /\ done = {}
    /\ \E result \in [Units -> UNION {pathfinding_agent_results(World, u, Structures) : u \in Units}] :
          /\ \A u \in Units : result[u] \in pathfinding_agent_results(World, u, Structures)
          /\ agent' = result
    /\ frame' = "update"
    /\ UNCHANGED <<reserved, chest_inv, historyVars, req_inv, pos, unit_inv, action_queue,
                   current_action, current_task, available, done>>

MovementSystem ==
    /\ frame = "update"
    /\ \E unit_order \in Orders(Units) :
          Becomes(movement_system(World, unit_order, 1))
    /\ frame' = "fixed"
    /\ UNCHANGED <<historyVars, done>>

PipelineNext ==
    \/ TestFind
    \/ Planner
    \/ Executor
    \/ Completion
    \/ AssignNext
    \/ PathfindingSystem
    \/ MovementSystem

SpecPipeline == PipelineInit /\ [][PipelineNext]_vars

----------------------------------------------------------------------------
(* The ledger driven through its API *)


(* the pipeline at rest: what the ledger-only specifications leave untouched *)
PipelineIdle ==
    /\ req_inv = [k \in ItemKind |-> 0]
    /\ pos = [u \in Units |-> Tile(0, 0)]
    /\ unit_inv = [u \in Units |-> [k \in ItemKind |-> 0]]
    /\ action_queue = [u \in Units |-> << >>]
    /\ current_action = [u \in Units |-> [action |-> None, initialized |-> FALSE]]
    /\ current_task = [u \in Units |-> [task |-> None, initialized |-> FALSE]]
    /\ agent = [u \in Units |-> [target |-> None, path |-> << >>]]
    /\ available = [u \in Units |-> FALSE]
    /\ done = {}
    /\ frame = "fixed"

LedgerInit ==
    /\ reserved = EmptyMap
    /\ chest_inv = [c \in Chests |-> [k \in ItemKind |-> 0]]
    /\ last = NoCall
    /\ granted = ZeroGrant
    /\ lastStock = NoStock
    /\ lastPosStock = NoStock
    /\ PipelineIdle

(* try_reserve with the stock value supplied by the caller *)
TryReserve ==
    \E owner \in Units, chest \in Chests, kind \in ItemKind,
       qty \in 0..MaxQty, stock \in 0..MaxStock :
        LET r == try_reserve(reserved, owner, chest, kind, qty, InventoryOf(kind, stock))
        IN /\ reserved' = r.reserved
           /\ last' = [op |-> "try_reserve", owner |-> owner, chest |-> chest,
                       kind |-> kind, qty |-> qty, stock |-> stock,
                       ok |-> r.ok, pre |-> reserved]
           /\ UNCHANGED <<chest_inv, granted, lastStock, lastPosStock, pipelineVars>>

Release ==
    \E owner \in Units, chest \in Chests, kind \in ItemKind, qty \in 0..MaxQty :
        /\ reserved' = release(reserved, owner, chest, kind, qty)
        /\ last' = [op |-> "release", owner |-> owner, chest |-> chest,
                    kind |-> kind, qty |-> qty, pre |-> reserved]
        /\ UNCHANGED <<chest_inv, granted, lastStock, lastPosStock, pipelineVars>>

ReleaseAllForOwner ==
    \E owner \in Units :
        /\ reserved' = release_all_for_owner(reserved, owner)
        /\ last' = [op |-> "release_all_for_owner", owner |-> owner, pre |-> reserved]
        /\ UNCHANGED <<chest_inv, granted, lastStock, lastPosStock, pipelineVars>>

LedgerNext == TryReserve \/ Release \/ ReleaseAllForOwner

SpecLedger == LedgerInit /\ [][LedgerNext]_vars

(* try_reserve against the chest's own, fixed, inventory; no release *)
TryReserveFixed ==
    \E owner \in Units, chest \in Chests, kind \in ItemKind, qty \in 0..MaxQty :
        LET r == try_reserve(reserved, owner, chest, kind, qty, chest_inv[chest])
        IN /\ reserved' = r.reserved
           /\ last' = [op |-> "try_reserve", ok |-> r.ok]
           /\ granted' = IF r.ok
                         THEN [granted EXCEPT ![chest][kind] = @ + qty]
                         ELSE granted
           /\ UNCHANGED <<chest_inv, lastStock, lastPosStock, pipelineVars>>

ReserveNext == TryReserveFixed

ReserveInit ==
    /\ reserved = EmptyMap
    /\ chest_inv \in [Chests -> [ItemKind -> 0..MaxStock]]
    /\ last = NoCall
    /\ granted = ZeroGrant
    /\ lastStock = NoStock
    /\ lastPosStock = NoStock
    /\ PipelineIdle

SpecReserve == ReserveInit /\ [][ReserveNext]_vars

(* try_reserve / release with a stock value that differs from call to call *)
TryReserveStock ==
    \E owner \in Units, chest \in Chests, kind \in ItemKind,
       qty \in 0..MaxQty, stock \in 0..MaxStock :
        LET r == try_reserve(reserved, owner, chest, kind, qty, InventoryOf(kind, stock))
        IN /\ reserved' = r.reserved
           /\ lastStock' = IF r.ok
                           THEN [lastStock EXCEPT ![chest][kind] = stock]
                           ELSE lastStock
           /\ lastPosStock' = IF r.ok /\ qty >= 1
                              THEN [lastPosStock EXCEPT ![chest][kind] = stock]
                              ELSE lastPosStock
           /\ UNCHANGED <<chest_inv, last, granted, pipelineVars>>

ReleaseStock ==
    \E owner \in Units, chest \in Chests, kind \in ItemKind, qty \in 0..MaxQty :
        /\ reserved' = release(reserved, owner, chest, kind, qty)
        /\ UNCHANGED <<chest_inv, last, granted, lastStock, lastPosStock, pipelineVars>>

StockNext == TryReserveStock \/ ReleaseStock

SpecStock == LedgerInit /\ [][StockNext]_vars

----------------------------------------------------------------------------
(* Properties of the ledger API *)

Max(a, b) == IF a >= b THEN a ELSE b

(* C1: try_reserve is all-or-nothing. With free = stock - total_reserved   *)
(* floored at 0: if free >= qty the call returns true and the owner's      *)
(* claim on (chest, kind) has grown by exactly qty; otherwise it returns   *)
(* false and the whole ledger is exactly as it was before the call.        *)
C1_TryReserveAllOrNothing ==
    last.op = "try_reserve" =>
        LET free == saturating_sub(last.stock,
                                   total_reserved(last.pre, last.chest, last.kind))
        IN IF free >= last.qty
           THEN /\ last.ok
                /\ owner_reserved(reserved, last.owner, last.chest, last.kind)
                     = owner_reserved(last.pre, last.owner, last.chest, last.kind) + last.qty
           ELSE /\ ~last.ok
                /\ reserved = last.pre

(* a try_reserve refused on a ledger that already holds claims, and one     *)
(* accepted for a positive quantity on top of another claimant's claim      *)
C1_Witness ==
    /\ last.op = "try_reserve"
    /\ ~last.ok
    /\ last.qty >= 1
    /\ total_reserved(last.pre, last.chest, last.kind) >= 1
    /\ last.stock > total_reserved(last.pre, last.chest, last.kind)

(* C2: no over-reservation. With a fixed stock S per chest and kind and a  *)
(* ledger that starts empty, the quantities of the try_reserve calls that  *)
(* returned true never sum to more than S.                                 *)
C2_NoOverReservation ==
    \A c \in Chests, k \in ItemKind : granted[c][k] <= count(chest_inv[c], k)

(* the whole stock has been granted to two claimants and a call was refused *)
C2_Witness ==
    /\ last.op = "try_reserve"
    /\ ~last.ok
    /\ \E c \in Chests, k \in ItemKind :
          /\ count(chest_inv[c], k) = MaxStock
          /\ granted[c][k] = MaxStock
          /\ \A o \in Units : owner_reserved(reserved, o, c, k) >= 1

(* C3: ledger conservation. For every chest and kind, total_reserved is    *)
(* the sum over all claimants of owner_reserved.                           *)
C3_LedgerConservation ==
    \A c \in Chests, k \in ItemKind :
        total_reserved(reserved, c, k)
          = SumOver(Units, [o \in Units |-> owner_reserved(reserved, o, c, k)])

(* two claimants hold claims on one chest after a release *)
C3_Witness ==
    /\ last.op = "release"
    /\ last.pre # reserved
    /\ \E c \in Chests, k \in ItemKind :
          \A o \in Units : owner_reserved(reserved, o, c, k) >= 1

(* C4 as claimed: total_reserved never exceeds the stock supplied to the   *)
(* most recent successful try_reserve for that chest and kind, successful  *)
(* calls with qty 0 included.                                              *)
C4_Original ==
    \A c \in Chests, k \in ItemKind :
        lastStock[c][k] >= 0 => total_reserved(reserved, c, k) <= lastStock[c][k]

(* C4 amended: total_reserved never exceeds the stock supplied to the most *)
(* recent successful try_reserve with qty >= 1 for that chest and kind.    *)
C4_BoundedByLastPositiveReserve ==
    \A c \in Chests, k \in ItemKind :
        lastPosStock[c][k] >= 0 => total_reserved(reserved, c, k) <= lastPosStock[c][k]

(* the stock dropped below the amount reserved and a qty 0 call succeeded *)
C4_Witness ==
    \E c \in Chests, k \in ItemKind :
        /\ lastPosStock[c][k] >= 0
        /\ lastStock[c][k] >= 0
        /\ lastStock[c][k] < total_reserved(reserved, c, k)
        /\ total_reserved(reserved, c, k) = lastPosStock[c][k]

(* C5: release sets the owner's claim on (chest, kind) to                  *)
(* max(0, old - qty) and changes no other claimant's, chest's or kind's    *)
(* amount.                                                                 *)
C5_ReleaseSaturates ==
    last.op = "release" =>
        /\ owner_reserved(reserved, last.owner, last.chest, last.kind)
             = Max(0, owner_reserved(last.pre, last.owner, last.chest, last.kind) - last.qty)
        /\ \A o \in Units, c \in Chests, k \in ItemKind :
              <<o, c, k>> # <<last.owner, last.chest, last.kind>> =>
                  owner_reserved(reserved, o, c, k) = owner_reserved(last.pre, o, c, k)

(* more was released than the owner held, while another claimant holds a claim *)
C5_Witness ==
    /\ last.op = "release"
    /\ owner_reserved(last.pre, last.owner, last.chest, last.kind) >= 1
    /\ last.qty > owner_reserved(last.pre, last.owner, last.chest, last.kind)
    /\ \E o \in Units \ {last.owner} :
          owner_reserved(reserved, o, last.chest, last.kind) >= 1

(* C6: release_all_for_owner leaves the owner with no claim on any chest   *)
(* or kind and every other claimant's claims unchanged.                    *)
C6_ReleaseAllFrame ==
    last.op = "release_all_for_owner" =>
        \A c \in Chests, k \in ItemKind :
            /\ owner_reserved(reserved, last.owner, c, k) = 0
            /\ \A o \in Units \ {last.owner} :
                  owner_reserved(reserved, o, c, k) = owner_reserved(last.pre, o, c, k)

(* the owner held claims on two chests, one of them shared with another claimant *)
C6_Witness ==
    /\ last.op = "release_all_for_owner"
    /\ \A c \in Chests : \E k \in ItemKind :
          owner_reserved(last.pre, last.owner, c, k) >= 1
    /\ \E o \in Units \ {last.owner}, c \in Chests, k \in ItemKind :
          owner_reserved(reserved, o, c, k) >= 1

----------------------------------------------------------------------------
(* The task systems applied once to a world drawn from bounded sets *)

Idle == [target |-> None, path |-> << >>]
NoAction == [action |-> None, initialized |-> FALSE]

WithStatus(task, status) == [task EXCEPT !.status = status]

WithClaim(res, owner, chest, kind, qty) ==
    IF qty = 0 THEN res
    ELSE Put(res, chest, Put(Get(res, chest, EmptyMap), owner,
                             Put(Get(Get(res, chest, EmptyMap), owner, EmptyMap), kind, qty)))

MoveTargets == {ChestTile[c] : c \in Chests} \cup {RequesterTile}

(* what a unit may be in the middle of: a task, its queue, its current     *)
(* action and its pathfinding agent                                        *)
PendingSituations ==
    {[task |-> NewTask(task_kind, k, q), queue |-> << >>, action |-> NoAction, agent |-> Idle] :
        task_kind \in {"GetItems", "DeliverItems"}, k \in ItemKind, q \in 1..MaxQty}

TakeSituations ==
    {[task |-> WithStatus(NewTask("GetItems", k, q), "Planned"), queue |-> << >>,
      action |-> [action |-> Some(Take(k, q, c)), initialized |-> FALSE], agent |-> Idle] :
        k \in ItemKind, q \in 1..MaxQty, c \in Chests}

DropSituations ==
    {[task |-> WithStatus(NewTask("DeliverItems", k, q), "Planned"), queue |-> << >>,
      action |-> [action |-> Some(Drop(k, q, rq)), initialized |-> FALSE], agent |-> Idle] :
        k \in ItemKind, q \in 1..MaxQty, rq \in Requesters}

NavigatingTo(t) == {[target |-> Some(t), path |-> w] : w \in {<< >>, <<Tile(2, 0)>>}}

MoveToSituations ==
    UNION {{[task |-> WithStatus(NewTask("GetItems", "Rock", 1), "Planned"),
             queue |-> <<Take("Rock", 1, "c1")>>,
             action |-> [action |-> Some(MoveTo(t)), initialized |-> i],
             agent |-> a] :
               i \in BOOLEAN, a \in {Idle} \cup NavigatingTo(t)} : t \in MoveTargets}

SettledSituations ==
    {[task |-> WithStatus(NewTask("GetItems", "Rock", 1), st), queue |-> q,
      action |-> NoAction, agent |-> Idle] :
        st \in {"Planned", "Failed", "Completed"},
        q \in {<< >>, <<Take("Rock", 1, "c1")>>}}

Situations ==
    PendingSituations \cup TakeSituations \cup DropSituations
        \cup MoveToSituations \cup SettledSituations

SystemsInit ==
    /\ chest_inv \in [Chests -> [ItemKind -> 0..MaxStock]]
    /\ \E own \in 0..MaxQty, other \in 0..1, c \in Chests :
          reserved = WithClaim(WithClaim(EmptyMap, "u2", c, "Rock", other),
                               "u1", c, "Rock", own)
    /\ last = NoCall
    /\ granted = ZeroGrant
    /\ lastStock = NoStock
    /\ lastPosStock = NoStock
    /\ req_inv = [k \in ItemKind |-> 0]
    /\ pos \in [Units -> {Tile(1, 0), Tile(2, 0)}]
    /\ pos["u2"] = Tile(2, 0)
    /\ unit_inv \in [Units -> [ItemKind -> 0..MaxStock]]
    /\ unit_inv["u2"] = [k \in ItemKind |-> 0]
    /\ \E s \in Situations :
          /\ action_queue = [u \in Units |-> IF u = "u1" THEN s.queue ELSE << >>]
          /\ current_action = [u \in Units |-> IF u = "u1" THEN s.action ELSE NoAction]
          /\ current_task = [u \in Units |->
                                IF u = "u1"
                                THEN [task |-> Some(s.task),
                                      initialized |-> s.task.status # "Pending"]
                                ELSE [task |-> None, initialized |-> FALSE]]
          /\ agent = [u \in Units |-> IF u = "u1" THEN s.agent ELSE Idle]
    /\ available = [u \in Units |-> u = "u2"]
    /\ done = {}
    /\ frame = "fixed"

Applied(op) ==
    /\ last = NoCall
    /\ last' = [op |-> op, pre |-> World]
    /\ UNCHANGED <<granted, lastStock, lastPosStock, done, frame>>

ApplyPlanner ==
    /\ \E unit_order \in Orders(Units), chest_order \in Orders(Chests) :
          Becomes(actions_decompose_planner(World, unit_order, 1, chest_order))
    /\ Applied("planner")

ApplyExecutor ==
    /\ \E unit_order \in Orders(Units) :
          Becomes(process_current_action(World, unit_order, 1))
    /\ Applied("executor")

ApplyCompletion ==
    /\ \E unit_order \in Orders(Units) :
          Becomes(update_task_completion(World, unit_order, 1))
    /\ Applied("completion")

(* test_find_2_rocks / test_deliver_2_rocks on the unit the query visits   *)
(* first                                                                   *)
ApplyAssign ==
    /\ last = NoCall
    /\ \E u \in Units, task \in NewTasks :
          /\ Becomes(assign_task(World, u, task.kind, task.item, task.quantity))
          /\ last' = [op |-> "assign", pre |-> World, unit |-> u]
    /\ UNCHANGED <<granted, lastStock, lastPosStock, done, frame>>

SystemsNext == ApplyPlanner \/ ApplyExecutor \/ ApplyCompletion

SpecSystems == SystemsInit /\ [][SystemsNext]_vars

(* the assigners alone, with full chests and units that hold nothing *)
AssignInit ==
    /\ SystemsInit
    /\ chest_inv = [c \in Chests |-> [k \in ItemKind |-> MaxStock]]
    /\ pos = UnitStart
    /\ unit_inv = [u \in Units |-> [k \in ItemKind |-> 0]]

SpecAssign == AssignInit /\ [][ApplyAssign]_vars

----------------------------------------------------------------------------
(* Properties of the tick pipeline *)

HasTask(u) == current_task[u].task # None
TaskOf(u) == Unwrap(current_task[u].task)

(* C7: in every reachable state of the tick pipeline an agent whose task   *)
(* slot is none holds no claim in the ledger on any container or kind.     *)
C7_NoLeakedClaims ==
    \A u \in Units :
        ~HasTask(u) =>
            \A c \in Chests, k \in ItemKind : owner_reserved(reserved, u, c, k) = 0

(* C8: two agents' Pending Acquire tasks for one kind, planned one after   *)
(* the other in either order against a single stocked container holding S  *)
(* unclaimed units: the first is Planned with min(need1, S) reserved, the   *)
(* second is Planned with min(need2, S - first) reserved or, when nothing   *)
(* is left, Failed with nothing reserved; the claims never exceed S.        *)
PendingAcquire(u, k) ==
    /\ HasTask(u)
    /\ TaskOf(u).status = "Pending"
    /\ TaskOf(u).kind = "GetItems"
    /\ TaskOf(u).item = k
    /\ TaskOf(u).quantity > count(unit_inv[u], k)

SingleContainer(c, k) ==
    /\ count(chest_inv[c], k) > 0
    /\ \A d \in Chests \ {c} : count(chest_inv[d], k) = 0
    /\ \A d \in Chests : total_reserved(reserved, d, k) = 0

C8_TwoAcquiresShareStock ==
    \A a \in Units, b \in Units, c \in Chests, k \in ItemKind,
       chest_order \in Orders(Chests) :
        (a # b /\ PendingAcquire(a, k) /\ PendingAcquire(b, k) /\ SingleContainer(c, k)) =>
            LET S == count(chest_inv[c], k)
                need1 == TaskOf(a).quantity - count(unit_inv[a], k)
                need2 == TaskOf(b).quantity - count(unit_inv[b], k)
                W1 == plan_unit(World, a, chest_order)
                W2 == plan_unit(W1, b, chest_order)
                first == Min(need1, S)
                remaining == S - first
            IN /\ owner_reserved(W1.reserved, a, c, k) = first
               /\ Unwrap(W1.current_task[a].task).status = "Planned"
               /\ owner_reserved(W2.reserved, a, c, k) = first
               /\ IF remaining > 0
                  THEN /\ owner_reserved(W2.reserved, b, c, k) = Min(need2, remaining)
                       /\ Unwrap(W2.current_task[b].task).status = "Planned"
                  ELSE /\ owner_reserved(W2.reserved, b, c, k) = 0
                       /\ Unwrap(W2.current_task[b].task).status = "Failed"
               /\ total_reserved(W2.reserved, c, k) <= S

(* both agents planned against the one stocked container, the second one   *)
(* with a partial claim, and the stock is claimed in full                   *)
C8_Witness ==
    \E a \in Units, b \in Units, c \in Chests, k \in ItemKind :
        /\ a # b
        /\ "planner" \in done
        /\ HasTask(a) /\ TaskOf(a).status = "Planned"
        /\ HasTask(b) /\ TaskOf(b).status = "Planned"
        /\ \A d \in Chests \ {c} : count(chest_inv[d], k) = 0
        /\ owner_reserved(reserved, a, c, k) = TaskOf(a).quantity - count(unit_inv[a], k)
        /\ owner_reserved(reserved, b, c, k) > 0
        /\ owner_reserved(reserved, b, c, k) < TaskOf(b).quantity - count(unit_inv[b], k)
        /\ total_reserved(reserved, c, k) = count(chest_inv[c], k)

(* C9: running the planner on an agent whose task status is not Pending    *)
(* changes nothing: action queue, task status and ledger stay as they are. *)
NotPending(u) == HasTask(u) /\ TaskOf(u).status # "Pending"

C9_PlannerIdempotent ==
    \A chest_order \in Orders(Chests) :
        /\ \A u \in Units : NotPending(u) => plan_unit(World, u, chest_order) = World
        /\ \A unit_order \in Orders(Units) :
               (\A u \in Units : NotPending(u)) =>
                   actions_decompose_planner(World, unit_order, 1, chest_order) = World

(* the planner has run this tick over a task it planned in an earlier tick: *)
(* the executor, which has not run yet this tick, already armed its MoveTo  *)
C9_Witness ==
    \E u \in Units :
        /\ "planner" \in done
        /\ "executor" \notin done
        /\ NotPending(u) /\ TaskOf(u).status = "Planned"
        /\ current_action[u].action # None
        /\ current_action[u].initialized
        /\ Len(action_queue[u]) = 1
        /\ \E c \in Chests, k \in ItemKind : owner_reserved(reserved, u, c, k) > 0

(* C10: planning an Acquire(kind, qty) task for an agent that already      *)
(* holds at least qty of kind marks it Completed at once, enqueues no       *)
(* action and makes no reservation.                                         *)
C10_AcquireAlreadyHeld ==
    \A u \in Units, chest_order \in Orders(Chests) :
        (/\ HasTask(u)
         /\ TaskOf(u).status = "Pending"
         /\ TaskOf(u).kind = "GetItems"
         /\ count(unit_inv[u], TaskOf(u).item) >= TaskOf(u).quantity) =>
            LET W1 == plan_unit(World, u, chest_order)
            IN /\ Unwrap(W1.current_task[u].task).status = "Completed"
               /\ W1.action_queue = action_queue
               /\ W1.current_action = current_action
               /\ W1.reserved = reserved
               /\ W1.agent = agent

(* an Acquire for exactly what the agent holds was planned: Completed, and *)
(* nothing queued                                                           *)
C10_Witness ==
    \E u \in Units :
        /\ "planner" \in done
        /\ HasTask(u)
        /\ TaskOf(u).status = "Completed"
        /\ TaskOf(u).kind = "GetItems"
        /\ TaskOf(u).quantity >= 1
        /\ count(unit_inv[u], TaskOf(u).item) = TaskOf(u).quantity
        /\ action_queue[u] = << >>
        /\ current_action[u].action = None

(* stock of a container not claimed by anyone *)
Unreserved(W, c, k) == Max(0, count(W.chest_inv[c], k) - total_reserved(W.reserved, c, k))

(* every claim but owner u's on chest c is the same in both ledgers *)
OtherClaimsSame(res1, res2, u, c) ==
    \A o \in Units, d \in Chests, k \in ItemKind :
        (o # u \/ d # c) => owner_reserved(res1, o, d, k) = owner_reserved(res2, o, d, k)

NeedsAcquire(u) ==
    /\ HasTask(u)
    /\ TaskOf(u).status = "Pending"
    /\ TaskOf(u).kind = "GetItems"
    /\ TaskOf(u).quantity > count(unit_inv[u], TaskOf(u).item)

(* C11: planning a Pending Acquire(kind, qty) when some container has      *)
(* unreserved stock marks the task Planned, appends exactly                 *)
(* [MoveTo(container tile), Take(kind, take_qty, container)] and raises the *)
(* agent's claim on that container by take_qty = min(qty - held, unreserved *)
(* stock of the chosen container); no other claim changes.                  *)
C11_AcquirePlanned ==
    \A u \in Units, chest_order \in Orders(Chests) :
        (NeedsAcquire(u) /\ \E c \in Chests : Unreserved(World, c, TaskOf(u).item) > 0) =>
            LET k == TaskOf(u).item
                need == TaskOf(u).quantity - count(unit_inv[u], k)
                W1 == plan_unit(World, u, chest_order)
            IN /\ Unwrap(W1.current_task[u].task).status = "Planned"
               /\ \E c \in Chests :
                    LET take_qty == Min(need, Unreserved(World, c, k))
                    IN /\ take_qty > 0
                       /\ W1.action_queue[u] =
                              action_queue[u] \o <<MoveTo(ChestTile[c]), Take(k, take_qty, c)>>
                       /\ owner_reserved(W1.reserved, u, c, k) =
                              owner_reserved(reserved, u, c, k) + take_qty
                       /\ OtherClaimsSame(W1.reserved, reserved, u, c)
               /\ \A o \in Units \ {u} : W1.action_queue[o] = action_queue[o]

(* the planner has planned an Acquire in full: MoveTo then Take queued and  *)
(* the claim equal to the quantity still needed                             *)
C11_Witness ==
    \E u \in Units, c \in Chests :
        /\ "planner" \in done
        /\ HasTask(u) /\ TaskOf(u).status = "Planned" /\ TaskOf(u).kind = "GetItems"
        /\ LET k == TaskOf(u).item
               t == TaskOf(u).quantity - count(unit_inv[u], k)
           IN /\ t >= 1
              /\ action_queue[u] = <<MoveTo(ChestTile[c]), Take(k, t, c)>>
              /\ owner_reserved(reserved, u, c, k) = t
        /\ current_action[u].action = None

(* C12: an Acquire is marked Failed when no container has unreserved stock, *)
(* and whenever the planner marks an Acquire Failed it enqueues no action   *)
(* and leaves the agent with no claim from that attempt.                    *)
C12_AcquireFailedIsClean ==
    \A u \in Units, chest_order \in Orders(Chests) :
        NeedsAcquire(u) =>
            LET k == TaskOf(u).item
                W1 == plan_unit(World, u, chest_order)
                failed == Unwrap(W1.current_task[u].task).status = "Failed"
            IN /\ (\A c \in Chests : Unreserved(World, c, k) = 0) => failed
               /\ failed =>
                    /\ W1.action_queue = action_queue
                    /\ W1.current_action = current_action
                    /\ \A c \in Chests :
                         /\ owner_reserved(W1.reserved, u, c, k) <= owner_reserved(reserved, u, c, k)
                         /\ OtherClaimsSame(W1.reserved, reserved, u, c)

(* the planner failed an Acquire because another agent's claims cover all   *)
(* the stock there is; nothing is queued and the agent holds no claim       *)
C12_Witness ==
    \E u \in Units, c \in Chests :
        /\ "planner" \in done
        /\ HasTask(u) /\ TaskOf(u).status = "Failed" /\ TaskOf(u).kind = "GetItems"
        /\ LET k == TaskOf(u).item
           IN /\ count(chest_inv[c], k) > 0
              /\ \A d \in Chests : total_reserved(reserved, d, k) = count(chest_inv[d], k)
              /\ \A d \in Chests : owner_reserved(reserved, u, d, k) = 0
        /\ action_queue[u] = << >>
        /\ current_action[u].action = None

----------------------------------------------------------------------------
(* Properties of the systems applied once *)

Ran1(op) == last.op = op
PreTask(u) == Unwrap(last.pre.current_task[u].task)
PreAction(u) == Unwrap(last.pre.current_action[u].action)
PreHasAction(u, type) ==
    IF last.pre.current_action[u].action = None THEN FALSE ELSE PreAction(u).type = type

(* squared distance against (BONUS_RANGE + UNIT_REACH)^2, in hundredths *)
ReachSqHundredths == (BONUS_RANGE_TENTHS + 10 * UNIT_REACH) * (BONUS_RANGE_TENTHS + 10 * UNIT_REACH)
InReach(a, b) == DistSq(a, b) * 100 <= ReachSqHundredths

(* C13: planning a Pending Deliver(kind, qty) appends exactly              *)
(* [MoveTo(destination tile), Drop(kind, qty, destination)], marks the task *)
(* Planned and leaves the ledger unchanged.                                 *)
C13_DeliverPlanned ==
    Ran1("planner") =>
        \A u \in Units :
            (/\ last.pre.current_task[u].task # None
             /\ PreTask(u).status = "Pending"
             /\ PreTask(u).kind = "DeliverItems") =>
                /\ current_task[u].task = Some(WithStatus(PreTask(u), "Planned"))
                /\ \E rq \in Requesters :
                       action_queue[u] =
                           last.pre.action_queue[u]
                               \o <<MoveTo(RequesterTile),
                                    Drop(PreTask(u).item, PreTask(u).quantity, rq)>>
                /\ reserved = last.pre.reserved
                /\ unit_inv = last.pre.unit_inv

(* a Deliver for more than the agent holds was planned while claims were in *)
(* the ledger                                                               *)
C13_Witness ==
    /\ Ran1("planner")
    /\ \E u \in Units :
          /\ last.pre.current_task[u].task # None
          /\ PreTask(u).status = "Pending"
          /\ PreTask(u).kind = "DeliverItems"
          /\ count(unit_inv[u], PreTask(u).item) < PreTask(u).quantity
          /\ Len(action_queue[u]) = 2
          /\ action_queue[u][2].type = "Drop"
          /\ action_queue[u][2].quantity = PreTask(u).quantity
    /\ reserved # EmptyMap

(* C14: a Take whose container is out of reach is abandoned: the current    *)
(* action is cleared, no inventory changes and the ledger is unchanged.     *)
C14_TakeOutOfReachAbandoned ==
    Ran1("executor") =>
        \A u \in Units :
            (/\ PreHasAction(u, "Take")
             /\ ~InReach(ChestTile[PreAction(u).from], last.pre.pos[u])) =>
                /\ current_action[u].action = None
                /\ unit_inv = last.pre.unit_inv
                /\ chest_inv = last.pre.chest_inv
                /\ req_inv = last.pre.req_inv
                /\ reserved = last.pre.reserved

(* an out-of-reach Take from a stocked container on which the agent holds a *)
(* claim was executed                                                       *)
C14_Witness ==
    /\ Ran1("executor")
    /\ \E u \in Units :
          /\ PreHasAction(u, "Take")
          /\ ~InReach(ChestTile[PreAction(u).from], last.pre.pos[u])
          /\ count(chest_inv[PreAction(u).from], PreAction(u).kind) > 0
          /\ owner_reserved(reserved, u, PreAction(u).from, PreAction(u).kind) > 0
          /\ current_action[u].action = None

TotalCount(W, k) ==
    SumOver(Chests, [c \in Chests |-> W.chest_inv[c][k]])
        + SumOver(Units, [u \in Units |-> W.unit_inv[u][k]])
        + W.req_inv[k]

(* C15: a Take or Drop executed within reach moves min(qty, amount held by  *)
(* the giving side): the giver loses and the receiver gains that amount and *)
(* the total count of the kind over all inventories is unchanged.           *)
C15_TransferConserves ==
    Ran1("executor") =>
        /\ \A k \in ItemKind : TotalCount(World, k) = TotalCount(last.pre, k)
        /\ \A u \in Units :
              /\ (/\ PreHasAction(u, "Take")
                  /\ InReach(ChestTile[PreAction(u).from], last.pre.pos[u])) =>
                     LET k == PreAction(u).kind
                         c == PreAction(u).from
                         moved == Min(PreAction(u).quantity, last.pre.chest_inv[c][k])
                     IN /\ chest_inv[c][k] = last.pre.chest_inv[c][k] - moved
                        /\ unit_inv[u][k] = last.pre.unit_inv[u][k] + moved
              /\ (/\ PreHasAction(u, "Drop")
                  /\ InReach(RequesterTile, last.pre.pos[u])) =>
                     LET k == PreAction(u).kind
                         moved == Min(PreAction(u).quantity, last.pre.unit_inv[u][k])
                     IN /\ unit_inv[u][k] = last.pre.unit_inv[u][k] - moved
                        /\ req_inv[k] = last.pre.req_inv[k] + moved

(* a Drop within reach moved less than its quantity: all the agent held     *)
C15_Witness ==
    /\ Ran1("executor")
    /\ \E u \in Units :
          /\ PreHasAction(u, "Drop")
          /\ InReach(RequesterTile, last.pre.pos[u])
          /\ last.pre.unit_inv[u][PreAction(u).kind] >= 1
          /\ last.pre.unit_inv[u][PreAction(u).kind] < PreAction(u).quantity
          /\ req_inv[PreAction(u).kind] = last.pre.unit_inv[u][PreAction(u).kind]
          /\ unit_inv[u][PreAction(u).kind] = 0

TakeInReach(u) ==
    /\ Ran1("executor")
    /\ PreHasAction(u, "Take")
    /\ InReach(ChestTile[PreAction(u).from], last.pre.pos[u])

Transferred(u) ==
    Min(PreAction(u).quantity, last.pre.chest_inv[PreAction(u).from][PreAction(u).kind])

PreClaim(u) == owner_reserved(last.pre.reserved, u, PreAction(u).from, PreAction(u).kind)
PostClaim(u) == owner_reserved(reserved, u, PreAction(u).from, PreAction(u).kind)

(* C16 as stated: after a Take within reach the agent's claim on that       *)
(* container and kind is its old claim less the amount transferred, floored *)
(* at 0.                                                                    *)
C16_Original ==
    \A u \in Units :
        TakeInReach(u) => PostClaim(u) = Max(0, PreClaim(u) - Transferred(u))

(* C16 amended: after a Take within reach the claim is the old claim less   *)
(* the amount transferred, floored at 0, when something was transferred;    *)
(* when the container held nothing of the kind the whole claim is released. *)
(* Every other claim is unchanged.                                          *)
C16_ClaimReconciled ==
    \A u \in Units :
        TakeInReach(u) =>
            /\ PostClaim(u) = IF Transferred(u) = 0 THEN 0
                              ELSE Max(0, PreClaim(u) - Transferred(u))
            /\ OtherClaimsSame(reserved, last.pre.reserved, u, PreAction(u).from)

(* a Take within reach found less in the container than the agent had       *)
(* reserved, took it, and part of the claim remains                         *)
C16_Witness ==
    \E u \in Units :
        /\ TakeInReach(u)
        /\ Transferred(u) >= 1
        /\ Transferred(u) < PreClaim(u)
        /\ last.pre.chest_inv[PreAction(u).from][PreAction(u).kind] < PreClaim(u)
        /\ PostClaim(u) = PreClaim(u) - Transferred(u)

MoveToRan(u) == Ran1("executor") /\ PreHasAction(u, "MoveTo")

(* the path queue the resolution check sees: arming a new MoveTo clears it *)
PathChecked(u) ==
    IF last.pre.current_action[u].initialized THEN last.pre.agent[u].path ELSE << >>

Resolved(u) == current_action[u].action = None

(* C17 as stated: a MoveTo is resolved exactly when the path queue is empty *)
(* and the agent is within reach, 1 tile, of the target.                    *)
C17_Original ==
    \A u \in Units :
        MoveToRan(u) =>
            (Resolved(u) <=>
                /\ PathChecked(u) = << >>
                /\ DistSq(last.pre.pos[u], PreAction(u).target_pos) <= UNIT_REACH * UNIT_REACH)

(* C17 amended: a MoveTo is resolved exactly when the path queue is empty   *)
(* and the agent is within BONUS_RANGE + UNIT_REACH = 1.8 tiles of the      *)
(* target; once resolved, target is none, the path is empty and further     *)
(* executor runs change nothing; while unresolved the action stays armed.   *)
C17_MoveToResolution ==
    \A u \in Units :
        MoveToRan(u) =>
            /\ Resolved(u) <=>
                  /\ PathChecked(u) = << >>
                  /\ InReach(last.pre.pos[u], PreAction(u).target_pos)
            /\ Resolved(u) =>
                  /\ agent[u] = Idle
                  /\ \A unit_order \in Orders(Units) :
                         process_current_action(World, unit_order, 1) = World
            /\ ~Resolved(u) =>
                  /\ current_action[u] = [action |-> Some(PreAction(u)), initialized |-> TRUE]
                  /\ pos[u] = last.pre.pos[u]

(* a newly armed MoveTo was resolved at once from the tile diagonal to its  *)
(* target, with a path left over from earlier navigation cleared            *)
C17_Witness ==
    \E u \in Units :
        /\ MoveToRan(u)
        /\ ~last.pre.current_action[u].initialized
        /\ last.pre.agent[u].path # << >>
        /\ DistSq(last.pre.pos[u], PreAction(u).target_pos) = 2
        /\ Resolved(u)
        /\ agent[u] = Idle

ClaimsOf(res, u) == [c \in Chests |-> [k \in ItemKind |-> owner_reserved(res, u, c, k)]]
NoClaims == [c \in Chests |-> [k \in ItemKind |-> 0]]

PreFinished(u) ==
    /\ last.pre.action_queue[u] = << >>
    /\ last.pre.current_action[u].action = None

(* C20: after update_task_completion an agent whose task was Failed, or     *)
(* Planned/InProgress with an empty queue and no current action, has an     *)
(* empty task slot and no claim; a Planned/InProgress task with an action   *)
(* left keeps its task and its claims; nobody else's claims change.         *)
C20_CompletionReconciles ==
    Ran1("completion") =>
        \A u \in Units :
            IF last.pre.current_task[u].task = None
            THEN ClaimsOf(reserved, u) = ClaimsOf(last.pre.reserved, u)
            ELSE LET st == PreTask(u).status
                 IN /\ (st = "Failed" \/ (st \in {"Planned", "InProgress"} /\ PreFinished(u))) =>
                          /\ current_task[u].task = None
                          /\ ClaimsOf(reserved, u) = NoClaims
                    /\ (st \in {"Planned", "InProgress"} /\ ~PreFinished(u)) =>
                          /\ current_task[u] = last.pre.current_task[u]
                          /\ ClaimsOf(reserved, u) = ClaimsOf(last.pre.reserved, u)

(* a Failed task whose agent still held a claim was reconciled while        *)
(* another agent's claim stayed                                             *)
C20_Witness ==
    /\ Ran1("completion")
    /\ \E u \in Units, o \in Units :
          /\ o # u
          /\ last.pre.current_task[u].task # None
          /\ PreTask(u).status = "Failed"
          /\ ClaimsOf(last.pre.reserved, u) # NoClaims
          /\ ClaimsOf(reserved, u) = NoClaims
          /\ ClaimsOf(reserved, o) # NoClaims
          /\ current_task[u].task = None

----------------------------------------------------------------------------
(* Navigation: units that start on a MoveTo, driven by the tick pipeline    *)
(* with no new task assigned                                                *)

(* a tile beyond the wall ring, and a tile of the ring itself *)
BeyondWall == Tile(3, 3)
InWall == Tile(4, 0)
NavTargets == MoveTargets \cup {BeyondWall, InWall}

NavInit ==
    /\ reserved = EmptyMap
    /\ chest_inv = [c \in Chests |-> [k \in ItemKind |-> 0]]
    /\ last = NoCall
    /\ granted = ZeroGrant
    /\ lastStock = NoStock
    /\ lastPosStock = NoStock
    /\ req_inv = [k \in ItemKind |-> 0]
    /\ pos \in [Units -> {Tile(1, 0), Tile(2, 0)}]
    /\ unit_inv = [u \in Units |-> [k \in ItemKind |-> 0]]
    /\ action_queue = [u \in Units |-> << >>]
    /\ \E targets \in [Units -> NavTargets] :
          current_action = [u \in Units |->
                               [action |-> Some(MoveTo(targets[u])), initialized |-> FALSE]]
    /\ current_task = [u \in Units |-> [task |-> None, initialized |-> FALSE]]
    /\ agent = [u \in Units |-> Idle]
    /\ available = [u \in Units |-> FALSE]
    /\ done = {}
    /\ frame = "fixed"

(* the worlds one FixedUpdate tick may leave: planner, executor,           *)
(* completion in that order, assign_next before or after them              *)
TickWorlds(W) ==
    {LET W0 == IF assign_first
               THEN assign_next_action_or_set_available(W, unit_order, 1) ELSE W
         W1 == actions_decompose_planner(W0, unit_order, 1, chest_order)
         W2 == process_current_action(W1, unit_order, 1)
         W3 == update_task_completion(W2, unit_order, 1)
     IN IF assign_first THEN W3
        ELSE assign_next_action_or_set_available(W3, unit_order, 1) :
        unit_order \in Orders(Units), chest_order \in Orders(Chests),
        assign_first \in BOOLEAN}

(* the worlds pathfinding_system may leave *)
PathfindingWorlds(W) ==
    {[W EXCEPT !.agent = result] :
        result \in {r \in [Units -> UNION {pathfinding_agent_results(W, u, Structures) :
                                              u \in Units}] :
                       \A u \in Units : r[u] \in pathfinding_agent_results(W, u, Structures)}}

(* one FixedUpdate tick, then one Update frame, in turn *)
NavTick ==
    /\ frame = "fixed"
    /\ \E W1 \in TickWorlds(World) : Becomes(W1)
    /\ frame' = "update"
    /\ UNCHANGED <<historyVars, done>>

NavFrame ==
    /\ frame = "update"
    /\ \E W1 \in PathfindingWorlds(World), unit_order \in Orders(Units) :
          Becomes(movement_system(W1, unit_order, 1))
    /\ frame' = "fixed"
    /\ UNCHANGED <<historyVars, done>>

NavNext == NavTick \/ NavFrame

(* the app keeps running: the schedules never stop taking turns *)
ScheduleAdvances == frame' = IF frame = "fixed" THEN "update" ELSE "fixed"

NavFairness == WF_frame(ScheduleAdvances)

SpecNavigate == NavInit /\ [][NavNext]_vars /\ NavFairness

InMoveTo(u) ==
    IF current_action[u].action = None THEN FALSE
    ELSE Unwrap(current_action[u].action).type = "MoveTo"

(* C18: every MoveTo current action is eventually cleared.                  *)
C18_MoveToEventuallyCleared ==
    \A u \in Units : InMoveTo(u) ~> (current_action[u].action = None)

----------------------------------------------------------------------------
(* Navigation frame by frame.  movement_system moves an agent by            *)
(* movement_speed * time.delta_secs() tiles a frame, a fraction of a tile:  *)
(* a frame either leaves the agent on its tile or brings it to the next     *)
(* waypoint.  last.still counts, per agent, the consecutive frames that     *)
(* found it navigating and left its tile unchanged.                         *)

StuckThreshold == 2

Navigating(a) == a.target # None \/ a.path # << >>

NotStill == [op |-> "nav", still |-> [u \in Units |-> 0]]

(* movement_system's loop body when the frame's step may fall short of the *)
(* waypoint                                                                *)
step_unit(W, u, lands) ==
    IF W.agent[u].path = << >> THEN W
    ELSE IF at_waypoint(W.pos[u], Head(W.agent[u].path)) \/ lands
         THEN move_unit(W, u)
         ELSE W

RECURSIVE movement_frame(_, _, _, _)
movement_frame(W, unit_order, i, lands) ==
    IF i > Len(unit_order) THEN W
    ELSE movement_frame(step_unit(W, unit_order[i], lands[unit_order[i]]),
                        unit_order, i + 1, lands)

StallInit ==
    /\ reserved = EmptyMap
    /\ chest_inv = [c \in Chests |-> [k \in ItemKind |-> 0]]
    /\ last = NotStill
    /\ granted = ZeroGrant
    /\ lastStock = NoStock
    /\ lastPosStock = NoStock
    /\ req_inv = [k \in ItemKind |-> 0]
    /\ pos \in [Units -> {Tile(1, 0), Tile(2, 0)}]
    /\ unit_inv = [u \in Units |-> [k \in ItemKind |-> 0]]
    /\ action_queue = [u \in Units |-> << >>]
    /\ \E targets \in [Units -> NavTargets] :
          current_action = [u \in Units |->
                               [action |-> Some(MoveTo(targets[u])), initialized |-> FALSE]]
    /\ current_task = [u \in Units |-> [task |-> None, initialized |-> FALSE]]
    /\ agent = [u \in Units |-> Idle]
    /\ available = [u \in Units |-> FALSE]
    /\ done = {}
    /\ frame = "fixed"

StallTick ==
    /\ frame = "fixed"
    /\ \E W1 \in TickWorlds(World) : Becomes(W1)
    /\ frame' = "update"
    /\ UNCHANGED <<historyVars, done>>

StallFrame ==
    /\ frame = "update"
    /\ \E W1 \in PathfindingWorlds(World), unit_order \in Orders(Units),
          lands \in [Units -> BOOLEAN] :
          Becomes(movement_frame(W1, unit_order, 1, lands))
    /\ last' = [last EXCEPT !.still =
                   [u \in Units |->
                       IF Navigating(agent[u]) /\ pos'[u] = pos[u]
                       THEN Min(@[u] + 1, StuckThreshold + 1)
                       ELSE 0]]
    /\ frame' = "fixed"
    /\ UNCHANGED <<granted, lastStock, lastPosStock, done>>

StallNext == StallTick \/ StallFrame

SpecStall == StallInit /\ [][StallNext]_vars

(* C19: stuck detection - an agent that is navigating and whose tile has   *)
(* stayed unchanged for more than the stuck threshold of consecutive       *)
(* frames has had its navigation abandoned: target none, path empty.       *)
C19_StuckDetection ==
    \A u \in Units : last.still[u] > StuckThreshold => agent[u] = Idle

----------------------------------------------------------------------------
(* The life of a task: units that start with a task just assigned, driven   *)
(* by ticks and frames with no further assignment                           *)

LifeInit ==
    /\ reserved = EmptyMap
    /\ \E stock \in 0..MaxStock, other \in 0..1 :
          chest_inv = [c \in Chests |-> [k \in ItemKind |-> IF c = "c1" THEN stock ELSE other]]
    /\ last = NoCall
    /\ granted = ZeroGrant
    /\ lastStock = NoStock
    /\ lastPosStock = NoStock
    /\ req_inv = [k \in ItemKind |-> 0]
    /\ pos = UnitStart
    /\ \E held \in 0..MaxQty, other \in 0..1 :
          unit_inv = [u \in Units |-> [k \in ItemKind |-> IF u = "u1" THEN held ELSE other]]
    /\ action_queue = [u \in Units |-> << >>]
    /\ current_action = [u \in Units |-> NoAction]
    /\ \E tasks \in [Units -> {None} \cup {Some(t) : t \in NewTasks}] :
          current_task = [u \in Units |-> [task |-> tasks[u], initialized |-> FALSE]]
    /\ agent = [u \in Units |-> Idle]
    /\ available = [u \in Units |-> FALSE]
    /\ done = {}
    /\ frame = "fixed"

SpecLife == LifeInit /\ [][NavNext]_vars /\ NavFairness

Settled(u) ==
    IF current_task[u].task = None THEN FALSE
    ELSE Unwrap(current_task[u].task).status \in {"Completed", "Failed"}

(* C21: every task whose status becomes Completed or Failed is eventually  *)
(* destroyed: the task slot is reset to none by the pipeline itself.        *)
C21_SettledTaskDestroyed ==
    \A u \in Units : Settled(u) ~> (current_task[u].task = None)

----------------------------------------------------------------------------
(* Properties of movement and cancellation *)

(* C22: movement_system's waypoint handling - popping a reached waypoint,  *)
(* clearing the target on arrival - leaves every agent's task slot, action *)
(* queue and ledger claims unchanged.                                      *)
C22_MovementLeavesTask ==
    \A unit_order \in Orders(Units) :
        LET W1 == movement_system(World, unit_order, 1)
        IN /\ W1.current_task = current_task
           /\ W1.action_queue = action_queue
           /\ W1.reserved = reserved

(* reset_actions: cancels an agent's pending work *)
reset_actions(W, u) ==
    LET was_move_to == IF W.current_action[u].action = None THEN FALSE
                       ELSE Unwrap(W.current_action[u].action).type = "MoveTo"
    IN [W EXCEPT !.action_queue[u] = << >>,
                 !.agent[u] = IF was_move_to THEN Idle ELSE @,
                 !.current_action[u] = NoAction]

TakePending(u) ==
    \/ \E i \in DOMAIN action_queue[u] : action_queue[u][i].type = "Take"
    \/ IF current_action[u].action = None THEN FALSE
       ELSE Unwrap(current_action[u].action).type = "Take"

(* C23: after an agent's pending work is cancelled through reset_actions   *)
(* while a Take is queued or current, the agent holds no claim in the      *)
(* ledger.                                                                 *)
C23_CancellationReleasesClaims ==
    \A u \in Units :
        TakePending(u) => ClaimsOf(reset_actions(World, u).reserved, u) = NoClaims

(* C24: assignment never overwrites work in flight - the assigner writes   *)
(* a new Pending task into the slot only when the slot is none or holds a  *)
(* Completed or Failed task; a Pending or Planned task is never replaced,  *)
(* and nothing but that one slot is written.                               *)
C24_AssignmentKeepsWorkInFlight ==
    Ran1("assign") =>
        LET u == last.unit
            slot == last.pre.current_task[u]
            free == IF slot.task = None THEN TRUE
                    ELSE Unwrap(slot.task).status \in {"Completed", "Failed"}
        IN /\ free => /\ current_task[u].task # None
                      /\ TaskOf(u) \in NewTasks
                      /\ ~current_task[u].initialized
           /\ ~free => current_task[u] = slot
           /\ World = [last.pre EXCEPT !.current_task[u] = current_task[u]]

(* the assigner met a Planned task with a Take still to do and left it *)
C24_Witness ==
    /\ Ran1("assign")
    /\ last.pre.current_task[last.unit].task # None
    /\ PreTask(last.unit).status = "Planned"
    /\ last.pre.action_queue[last.unit] # << >>
    /\ current_task[last.unit] = last.pre.current_task[last.unit]

(* C25: within every tick the task systems run in the order planner,       *)
(* executor, completion reconciliation, assignment: a system has run only  *)
(* when the one before it in that order has.                               *)
C25_TickOrder ==
    /\ "executor" \in done => "planner" \in done
    /\ "completion" \in done => "executor" \in done
    /\ "assign_next" \in done => "completion" \in done

----------------------------------------------------------------------------
(* find_path applied once to a start, a goal and an obstacle set drawn     *)
(* from a small enclosed field                                             *)

FieldWidth == 3
MaxWalls == 2
MaxBudget == 3

Field == {Tile(x, y) : x \in 0..(FieldWidth - 1), y \in 0..1}
Enclosure == {Tile(x, y) : x \in -1..FieldWidth, y \in -1..2} \ Field

ObstacleSets == {Enclosure \cup w : w \in {v \in SUBSET Field : Cardinality(v) <= MaxWalls}}

actual_end(start_grid, end_grid, sm) ==
    LET substitute == find_nearest_passable_tile(end_grid, start_grid, sm)
    IN IF ~is_tile_passable(end_grid, sm)
       THEN (IF substitute = None THEN start_grid ELSE Unwrap(substitute))
       ELSE end_grid

PathInit ==
    /\ PipelineIdle
    /\ reserved = EmptyMap
    /\ chest_inv = [c \in Chests |-> [k \in ItemKind |-> 0]]
    /\ last = NoCall
    /\ granted = ZeroGrant
    /\ lastStock = NoStock
    /\ lastPosStock = NoStock

Found(op, start_grid, end_grid, sm, result) ==
    /\ last' = [op |-> op, start |-> start_grid, goal |-> actual_end(start_grid, end_grid, sm),
                sm |-> sm, result |-> result]
    /\ UNCHANGED <<reserved, chest_inv, granted, lastStock, lastPosStock, pipelineVars>>

(* find_path with the budget the code computes *)
FindPath ==
    /\ last = NoCall
    /\ \E sm \in ObstacleSets, start_grid \in Field, end_grid \in Field :
          \E result \in find_path(start_grid, end_grid, sm) :
              Found("find_path", start_grid, end_grid, sm, result)

(* the search loop of find_path under a budget small enough to run out *)
FindPathOnBudget ==
    /\ last = NoCall
    /\ \E sm \in ObstacleSets, start_grid \in Field, end_grid \in Field,
          max_expansions \in 0..MaxBudget :
          LET goal == actual_end(start_grid, end_grid, sm)
              start_node == [pos |-> start_grid, g_cost |-> 0,
                             h_cost |-> heuristic(start_grid, goal), parent |-> None]
          IN \E result \in a_star({start_node}, [p \in {start_grid} |-> start_node], 0,
                                  goal, max_expansions, sm) :
                 Found("budget", start_grid, end_grid, sm, result)

PathNext == FindPath \/ FindPathOnBudget

SpecPath == PathInit /\ [][PathNext]_vars

(* Properties of find_path *)

Returned == last.op \in {"find_path", "budget"} /\ last.result # None
PathOf == Unwrap(last.result)
Free(t) == t \notin last.sm

(* consecutive tiles are orthogonal neighbours, or diagonal neighbours     *)
(* with both corner tiles free                                             *)
StepsValid(path) ==
    \A i \in 1..(Len(path) - 1) :
        LET a == path[i]
            b == path[i + 1]
        IN /\ b \in get_neighbors(a)
           /\ is_diagonal(a, b) => Free(Tile(a[1], b[2])) /\ Free(Tile(b[1], a[2]))

(* C26 as stated: every tile of a returned path, its first tile included,  *)
(* is passable, and every step is orthogonal or an unblocked diagonal.     *)
C26_Original ==
    Returned =>
        /\ \A i \in 1..Len(PathOf) : Free(PathOf[i])
        /\ StepsValid(PathOf)

(* C26 amended: a returned path starts with the start tile, whatever that  *)
(* tile holds; every later tile is passable and every step is orthogonal   *)
(* or an unblocked diagonal.                                               *)
C26_PathValid ==
    Returned =>
        /\ PathOf # << >>
        /\ PathOf[1] = last.start
        /\ \A i \in 2..Len(PathOf) : Free(PathOf[i])
        /\ StepsValid(PathOf)

(* a path of three tiles that goes around a wall by a diagonal step *)
C26_Witness ==
    /\ Returned
    /\ last.op = "find_path"
    /\ Len(PathOf) >= 3
    /\ \E i \in 1..(Len(PathOf) - 1) : is_diagonal(PathOf[i], PathOf[i + 1])
    /\ Field \cap last.sm # {}
    /\ PathOf[Len(PathOf)] = last.goal

(* C27: when the search stops on its expansion budget, the last tile of    *)
(* the partial path is no farther from the (possibly substituted) goal, by *)
(* the heuristic, than the start tile.                                     *)
C27_PartialPathNoFarther ==
    Returned =>
        heuristic(PathOf[Len(PathOf)], last.goal) <= heuristic(last.start, last.goal)

(* the budget ran out short of the goal, on a tile closer to it than the   *)
(* start                                                                   *)
C27_Witness ==
    /\ Returned
    /\ last.op = "budget"
    /\ PathOf[Len(PathOf)] # last.goal
    /\ heuristic(PathOf[Len(PathOf)], last.goal) < heuristic(last.start, last.goal)

----------------------------------------------------------------------------
(* Errands: units given a direct MoveTo task, to a tile that may be out of *)
(* reach of every path                                                     *)

ErrandInit ==
    /\ reserved = EmptyMap
    /\ chest_inv = [c \in Chests |-> [k \in ItemKind |-> 0]]
    /\ last = NoCall
    /\ granted = ZeroGrant
    /\ lastStock = NoStock
    /\ lastPosStock = NoStock
    /\ req_inv = [k \in ItemKind |-> 0]
    /\ pos \in [Units -> {Tile(1, 0), Tile(2, 0)}]
    /\ unit_inv = [u \in Units |-> [k \in ItemKind |-> 0]]
    /\ action_queue = [u \in Units |-> << >>]
    /\ current_action = [u \in Units |-> NoAction]
    /\ \E targets \in [Units -> NavTargets] :
          current_task = [u \in Units |->
                             [task |-> Some(ActionTask(MoveTo(targets[u]))),
                              initialized |-> FALSE]]
    /\ agent = [u \in Units |-> Idle]
    /\ available = [u \in Units |-> FALSE]
    /\ done = {}
    /\ frame = "fixed"

SpecErrand == ErrandInit /\ [][NavNext]_vars /\ NavFairness

(* the pathfinder was armed for the agent's MoveTo and has given up short  *)
(* of the target                                                           *)
GaveUp(u) ==
    /\ InMoveTo(u)
    /\ current_action[u].initialized
    /\ agent[u] = Idle
    /\ ~within_reach(pos[u], Unwrap(current_action[u].action).target_pos)

(* C28: when no route to a MoveTo target was found, then by the end of the *)
(* next tick the agent's navigation target is reset, its task has been     *)
(* marked Failed (and so reconciled away) and it holds no claim.           *)
C28_PathUnreachableFailsTask ==
    \A u \in Units :
        (GaveUp(u) /\ frame = "update") =>
            /\ agent[u].target = None
            /\ (HasTask(u) => TaskOf(u).status = "Failed")
            /\ ClaimsOf(reserved, u) = NoClaims

----------------------------------------------------------------------------
(* Properties of the action queue *)

IsPrefix(q, r) == Len(q) <= Len(r) /\ SubSeq(r, 1, Len(q)) = q

(* what one step may do to an agent's queue and current action: nothing,   *)
(* append at the tail, move the head into an empty current action with     *)
(* initialized = false, or work on the current action until it clears      *)
QueueStep(u) ==
    \/ /\ action_queue'[u] = action_queue[u]
       /\ current_action'[u] = current_action[u]
    \/ /\ IsPrefix(action_queue[u], action_queue'[u])
       /\ current_action'[u] = current_action[u]
    \/ /\ current_action[u].action = None
       /\ action_queue[u] # << >>
       /\ current_action'[u] = [action |-> Some(Head(action_queue[u])), initialized |-> FALSE]
       /\ action_queue'[u] = Tail(action_queue[u])
    \/ /\ action_queue'[u] = action_queue[u]
       /\ current_action[u].action # None
       /\ current_action'[u].action \in {None, current_action[u].action}

(* an agent becomes available only with an empty queue and no current action *)
AvailableStep(u) ==
    (~available[u] /\ available'[u]) =>
        action_queue'[u] = << >> /\ current_action'[u].action = None

(* C29: under every ordering of the tick's systems the head of the queue   *)
(* becomes the current action, with initialized = false, only when no      *)
(* current action is set; queued actions are taken in FIFO order, none     *)
(* skipped, overwritten or taken twice; and an agent is marked available   *)
(* only when both its queue and its current action are empty.              *)
C29_QueueDiscipline ==
    [][\A u \in Units : QueueStep(u) /\ AvailableStep(u)]_vars

----------------------------------------------------------------------------
(* Properties of find_best_chest *)

Nearest(S, u, c) ==
    /\ c \in S
    /\ \A d \in S : DistSq(pos[u], ChestTile[c]) <= DistSq(pos[u], ChestTile[d])

(* C30: find_best_chest returns the nearest of the containers whose        *)
(* unreserved stock covers the needed quantity; if there is none, the      *)
(* nearest container with unreserved stock of at least 1; none when every  *)
(* container has zero unreserved stock; the amount it reports is the       *)
(* chosen container's unreserved stock.                                    *)
C30_BestChest ==
    \A u \in Units, k \in ItemKind, q \in 1..MaxQty, chest_order \in Orders(Chests) :
        LET best == find_best_chest(pos[u], q, k, chest_order, World)
            enough == {c \in Chests : Unreserved(World, c, k) >= q}
            some == {c \in Chests : Unreserved(World, c, k) >= 1}
            among(S) ==
                /\ best # None
                /\ Nearest(S, u, Unwrap(best).ent)
                /\ Unwrap(best).tile = ChestTile[Unwrap(best).ent]
                /\ Unwrap(best).qty = Unreserved(World, Unwrap(best).ent, k)
        IN IF enough # {} THEN among(enough)
           ELSE IF some # {} THEN among(some)
           ELSE best = None

(* the planner ran for an agent whose nearer container had unreserved      *)
(* stock but not enough, and sent it to the farther one, which had enough  *)
C30_Witness ==
    /\ Ran1("planner")
    /\ \E u \in Units, q \in 1..MaxQty, chest_order \in Orders(Chests) :
          LET W == last.pre
              best == find_best_chest(W.pos[u], q, "Rock", chest_order, W)
          IN /\ best # None
             /\ \E c \in Chests :
                   /\ DistSq(W.pos[u], ChestTile[c])
                        < DistSq(W.pos[u], ChestTile[Unwrap(best).ent])
                   /\ Unreserved(W, c, "Rock") >= 1
                   /\ Unreserved(W, c, "Rock") < q
                   /\ total_reserved(W.reserved, c, "Rock") > 0
             /\ W.current_task[u].task # None
             /\ PreTask(u) = NewTask("GetItems", "Rock", q)
             /\ W.unit_inv[u]["Rock"] = 0
             /\ action_queue[u] = W.action_queue[u]
                                    \o acquire_actions(ChestTile[Unwrap(best).ent], "Rock", q,
                                                       Unwrap(best).ent)

----------------------------------------------------------------------------
(* Properties of the neighbour expansion and of goal substitution *)

(* find_path was asked for a free tile diagonal to the start *)
DiagonalAsked ==
    /\ last.op = "find_path"
    /\ is_diagonal(last.start, last.goal)
    /\ Free(last.goal)

CornersBlocked ==
    {t \in {Tile(last.start[1], last.goal[2]), Tile(last.goal[1], last.start[2])} : ~Free(t)}

Direct == last.result = Some(<<last.start, last.goal>>)

(* C31 as stated: the diagonal step is rejected exactly when both corner   *)
(* tiles are impassable, so with at most one of them impassable the step   *)
(* to a free diagonal neighbour is the path.                               *)
C31_Original ==
    DiagonalAsked => (Direct <=> Cardinality(CornersBlocked) < 2)

(* C31 amended: the diagonal step is rejected exactly when at least one    *)
(* corner tile is impassable; with both corners free the step to a free    *)
(* diagonal neighbour is the path.                                         *)
C31_DiagonalNeedsBothCorners ==
    DiagonalAsked => (Direct <=> CornersBlocked = {})

(* with one corner blocked the path goes round by the free corner *)
C31_Witness ==
    /\ DiagonalAsked
    /\ Cardinality(CornersBlocked) = 1
    /\ Free(last.start)
    /\ last.result # None
    /\ Len(PathOf) = 3
    /\ PathOf[2] \notin CornersBlocked
    /\ ~is_diagonal(PathOf[1], PathOf[2])

----------------------------------------------------------------------------
(* find_path asked for a blocked goal: a walled room in which only a few   *)
(* tiles are free, the agent on one of them                                *)

RoomWidth == 4
MaxFree == 3
SUBSTITUTE_RADIUS == 5

Room == {Tile(x, y) : x \in 0..(RoomWidth - 1), y \in 0..2}
Rock == {Tile(x, y) : x \in (0 - SUBSTITUTE_RADIUS)..(RoomWidth - 1 + SUBSTITUTE_RADIUS),
                      y \in (0 - SUBSTITUTE_RADIUS)..(2 + SUBSTITUTE_RADIUS)}
FreeSets == {f \in SUBSET Room : Cardinality(f) \in 1..MaxFree}

FindPathToBlocked ==
    /\ last = NoCall
    /\ \E free \in FreeSets :
          \E start_grid \in free, end_grid \in Room \ free :
              \E result \in find_path(start_grid, end_grid, Rock \ free) :
                  /\ last' = [op |-> "blocked_goal", start |-> start_grid, target |-> end_grid,
                              sm |-> Rock \ free,
                              substitute |->
                                  find_nearest_passable_tile(end_grid, start_grid, Rock \ free),
                              result |-> result]
                  /\ UNCHANGED <<reserved, chest_inv, granted, lastStock, lastPosStock,
                                 pipelineVars>>

SpecBlockedGoal == PathInit /\ [][FindPathToBlocked]_vars

Asked == last.op = "blocked_goal"
Approach == Tile(Sign(last.target[1] - last.start[1]), Sign(last.target[2] - last.start[2]))
Chebyshev(a, b) == Max(Abs(a[1] - b[1]), Abs(a[2] - b[2]))
OnRay(t) == LET dx == t[1] - last.target[1]
                dy == t[2] - last.target[2]
            IN t # last.target /\ (dx = 0 \/ dy = 0 \/ Abs(dx) = Abs(dy))
(* 1 opposite of the approach, 2 orthogonal, 3 diagonal, 4 the approach *)
Priority(t) ==
    LET dir == Tile(Sign(t[1] - last.target[1]), Sign(t[2] - last.target[2]))
    IN IF dir = Tile(-Approach[1], -Approach[2]) THEN 1
       ELSE IF dir = Approach THEN 4
       ELSE IF dir[1] = 0 \/ dir[2] = 0 THEN 2
       ELSE 3
Candidates ==
    {t \in Rock : OnRay(t) /\ Chebyshev(t, last.target) <= SUBSTITUTE_RADIUS /\ Free(t)}
Earlier(a, b) ==
    \/ Chebyshev(a, last.target) < Chebyshev(b, last.target)
    \/ Chebyshev(a, last.target) = Chebyshev(b, last.target) /\ Priority(a) <= Priority(b)
Ring1 == {t \in Rock : Chebyshev(t, last.target) = 1}
NearSide == Tile(last.target[1] - Approach[1], last.target[2] - Approach[2])

(* C32: the substitute is the first passable candidate, by radius          *)
(* ascending and within a radius by priority opposite of the approach,     *)
(* perpendiculars, diagonals, approach; a goal enclosed on all sides but   *)
(* the side the agent approaches from is replaced by the tile of that side *)
(* and a returned path ends on it.                                         *)
C32_SubstitutionOrder ==
    Asked =>
        /\ (last.substitute = None <=> Candidates = {})
        /\ last.substitute # None =>
              /\ Unwrap(last.substitute) \in Candidates
              /\ \A t \in Candidates : Earlier(Unwrap(last.substitute), t)
        /\ ({t \in Ring1 : Free(t)} = {NearSide}) =>
              /\ last.substitute = Some(NearSide)
              /\ last.result # None => PathOf[Len(PathOf)] = NearSide

Nearby == {t \in Rock : Chebyshev(t, last.target) \in 1..SUBSTITUTE_RADIUS /\ Free(t)}

(* C33: the substitute is a passable tile of least ring radius (Chebyshev  *)
(* distance from the goal) among all passable tiles of rings 1..5, and     *)
(* there is no substitute only when no tile within radius 5 is passable.   *)
C33_NearestSubstitute ==
    Asked =>
        /\ last.substitute # None =>
              /\ Unwrap(last.substitute) \in Nearby
              /\ \A t \in Nearby :
                    Chebyshev(Unwrap(last.substitute), last.target) <= Chebyshev(t, last.target)
        /\ last.substitute = None => Nearby = {}

----------------------------------------------------------------------------
(* The search loop cut off after its first expansions, on an open strip    *)

StripWidth == 4
StripWalls == 1
CutBudget == 1

Strip == {Tile(x, y) : x \in 0..(StripWidth - 1), y \in 0..1}
StripFence == {Tile(x, y) : x \in -1..StripWidth, y \in -1..2} \ Strip
StripObstacles ==
    {StripFence \cup w : w \in {v \in SUBSET Strip : Cardinality(v) <= StripWalls}}

FindPathCutOff ==
    /\ last = NoCall
    /\ \E sm \in StripObstacles, start_grid \in Strip, end_grid \in Strip,
          max_expansions \in 0..CutBudget :
          LET goal == actual_end(start_grid, end_grid, sm)
              start_node == [pos |-> start_grid, g_cost |-> 0,
                             h_cost |-> heuristic(start_grid, goal), parent |-> None]
          IN \E result \in a_star({start_node}, [p \in {start_grid} |-> start_node], 0,
                                  goal, max_expansions, sm) :
                 /\ last' = [op |-> "cutoff", start |-> start_grid, goal |-> goal, sm |-> sm,
                             max_expansions |-> max_expansions, result |-> result]
                 /\ UNCHANGED <<reserved, chest_inv, granted, lastStock, lastPosStock,
                                pipelineVars>>

SpecCutoff == PathInit /\ [][FindPathCutOff]_vars

(* the loop ran out of budget: at the first pop with budget 0, at the     *)
(* second pop with budget 1 unless the start was the goal or had no       *)
(* neighbour to go to                                                      *)
CutOff ==
    /\ last.op = "cutoff"
    /\ last.max_expansions <= 1
    /\ last.result # None
    /\ last.max_expansions = 1 => last.start # last.goal
H(t) == heuristic(t, last.goal)
(* all_nodes at the cutoff: the start and, once it was expanded, the      *)
(* neighbours it was allowed to step to                                    *)
Discovered ==
    IF last.max_expansions = 0 THEN {last.start}
    ELSE {last.start} \cup
         {nb \in get_neighbors(last.start) :
             /\ Free(nb)
             /\ is_diagonal(last.start, nb) =>
                   Free(Tile(last.start[1], nb[2])) /\ Free(Tile(nb[1], last.start[2]))}
StepCost(nb) == IF is_diagonal(last.start, nb) THEN DiagonalCost ELSE OrthogonalCost
(* the nodes popped from the open set: the start, then a neighbour of     *)
(* least f_cost                                                            *)
TakenOff ==
    {last.start} \cup
    {nb \in Discovered \ {last.start} :
        \A other \in Discovered \ {last.start} :
            StepCost(nb) + H(nb) <= StepCost(other) + H(other)}
PathEnd == PathOf[Len(PathOf)]

(* C34 as stated: on a cutoff the path leads to a node of least heuristic *)
(* among the nodes already taken off the open set, not to a node that was *)
(* only discovered.                                                        *)
C34_Original ==
    CutOff =>
        /\ PathEnd \in TakenOff
        /\ \A t \in TakenOff : H(PathEnd) <= H(t)

(* C34 amended: on a cutoff the path leads to a node of least heuristic   *)
(* among all nodes discovered so far, whether already taken off the open  *)
(* set or still waiting in it.                                             *)
C34_CutoffBestDiscovered ==
    CutOff =>
        /\ PathEnd \in Discovered
        /\ \A t \in Discovered : H(PathEnd) <= H(t)

(* the path ends on a neighbour that is nearer to the goal than the one   *)
(* popped at the cutoff and that was never popped itself                    *)
C34_Witness ==
    /\ CutOff
    /\ last.max_expansions = 1
    /\ PathEnd \notin TakenOff
    /\ \A t \in TakenOff : H(PathEnd) < H(t)

----------------------------------------------------------------------------
(* The search loop of find_path one iteration at a time, and the budget    *)
(* computed for goals far away                                             *)

SearchBudget == 2
FarGoal == 488

Running == last.op = "search" /\ ~last.finished

(* everything before the loop: the goal, the budget, the start node; the  *)
(* agent stands in the corner of the strip                                 *)
SearchStart ==
    /\ last = NoCall
    /\ \E sm \in StripObstacles, start_grid \in {Tile(0, 0)}, end_grid \in Strip :
          LET goal == actual_end(start_grid, end_grid, sm)
              start_node == [pos |-> start_grid, g_cost |-> 0,
                             h_cost |-> heuristic(start_grid, goal), parent |-> None]
          IN \E max_expansions \in {max_expansions_of(start_grid, goal)} \cup 0..SearchBudget :
                last' = [op |-> "search", start |-> start_grid, goal |-> goal, sm |-> sm,
                         max_expansions |-> max_expansions,
                         open_set |-> {start_node},
                         all_nodes |-> [p \in {start_grid} |-> start_node],
                         expansions |-> 0, expanded |-> 0,
                         finished |-> FALSE, result |-> None]
    /\ UNCHANGED <<reserved, chest_inv, granted, lastStock, lastPosStock, pipelineVars>>

(* one iteration of while let Some(current_node) = open_set.pop(): the    *)
(* loop states it may lead to                                              *)
loop_iteration(search) ==
    LET Finish(result) ==
            [search EXCEPT !.finished = TRUE, !.result = result, !.expansions = @ + 1]
    IN IF search.open_set = {}
       THEN {[search EXCEPT !.finished = TRUE, !.result = None]}
       ELSE UNION {
            IF search.expansions + 1 > search.max_expansions
            THEN {Finish(Some(reconstruct_path(search.all_nodes, p))) :
                     p \in best_nodes(search.all_nodes)}
            ELSE IF current_node.pos = search.goal
            THEN {[Finish(Some(reconstruct_path(search.all_nodes, search.goal)))
                     EXCEPT !.expanded = @ + 1]}
            ELSE LET next == expand_neighbors(current_node,
                                              search.open_set \ {current_node},
                                              search.all_nodes, search.goal, search.sm)
                 IN {[search EXCEPT !.open_set = next.open_set,
                                    !.all_nodes = next.all_nodes,
                                    !.expansions = @ + 1,
                                    !.expanded = @ + 1]} :
            current_node \in {n \in search.open_set :
                                 \A m \in search.open_set : f_cost(n) <= f_cost(m)}}

SearchStep ==
    /\ Running
    /\ last' \in loop_iteration(last)
    /\ UNCHANGED <<reserved, chest_inv, granted, lastStock, lastPosStock, pipelineVars>>

(* the budget of a search towards a free tile far outside the strip *)
ComputeBudget ==
    /\ last = NoCall
    /\ \E start_grid \in Strip,
          end_grid \in {Tile(x, y) : x \in {FarGoal - 2, FarGoal, 2 * FarGoal}, y \in 0..1} :
          last' = [op |-> "budget_of", start |-> start_grid, goal |-> end_grid,
                   max_expansions |-> max_expansions_of(start_grid, end_grid)]
    /\ UNCHANGED <<reserved, chest_inv, granted, lastStock, lastPosStock, pipelineVars>>

SearchNext == SearchStart \/ SearchStep \/ ComputeBudget

SpecSearch == PathInit /\ [][SearchNext]_vars /\ WF_vars(SearchStep)

(* r is the integer nearest to the distance from a to b *)
NearestInteger(r, a, b) ==
    /\ r >= 0
    /\ r = 0 \/ (2 * r - 1) * (2 * r - 1) <= 4 * DistSq(a, b)
    /\ 4 * DistSq(a, b) < (2 * r + 1) * (2 * r + 1)
(* the budget the spec gives: min(BASE + round(distance) * PER_TILE, CEILING) *)
SpecBudget(a, b) ==
    LET r == CHOOSE r \in 0..(2 * FarGoal + StripWidth) : NearestInteger(r, a, b)
    IN Min(500 + r * 40, 20000)
CodeBudget ==
    last.op \in {"search", "budget_of"}
    /\ last.max_expansions = max_expansions_of(last.start, last.goal)

ExpansionsBounded ==
    /\ last.op = "search" =>
          /\ last.expanded <= last.max_expansions
          /\ last.expansions <= last.max_expansions + 1
          /\ last.finished =>
                last.result \in a_star({[pos |-> last.start, g_cost |-> 0,
                                         h_cost |-> heuristic(last.start, last.goal),
                                         parent |-> None]},
                                       [p \in {last.start} |->
                                           [pos |-> last.start, g_cost |-> 0,
                                            h_cost |-> heuristic(last.start, last.goal),
                                            parent |-> None]],
                                       0, last.goal, last.max_expansions, last.sm)
    /\ CodeBudget => last.max_expansions = SpecBudget(last.start, last.goal)

(* C35: find_path always terminates, and it expands at most               *)
(* min(BASE + round(heuristic(start, goal)) * PER_TILE, CEILING) nodes     *)
(* with BASE = 500, PER_TILE = 40, CEILING = 20000.                        *)
C35_SearchTerminates ==
    /\ []ExpansionsBounded
    /\ (last.op = "search") ~> (last.op = "search" /\ last.finished)

(* a search stopped by its budget after expanding as many nodes as it may, *)
C35_Witness ==
    /\ last.op = "search"
    /\ last.finished
    /\ last.max_expansions = SearchBudget
    /\ last.expanded = last.max_expansions
    /\ last.expansions = last.max_expansions + 1
    /\ last.result # None

----------------------------------------------------------------------------
(* Shape of the ledger *)

Compact(res) ==
    \A c \in DOMAIN res :
        /\ DOMAIN res[c] # {}
        /\ \A o \in DOMAIN res[c] :
              /\ DOMAIN res[c][o] # {}
              /\ \A k \in DOMAIN res[c][o] : res[c][o][k] # 0

(* C36 as stated: after any sequence of try_reserve, release and          *)
(* release_all_for_owner calls, quantities of 0 included, the ledger holds *)
(* no kind entry with quantity 0, no claimant with an empty kind map and   *)
(* no container with an empty claimant map.                                *)
C36_Original == Compact(reserved)

ZeroReserve == last.op = "try_reserve" /\ last.qty = 0

(* C36 amended: every call other than a try_reserve of quantity 0 leaves  *)
(* a compact ledger compact, so the ledger is compact after any sequence   *)
(* of release, release_all_for_owner and try_reserve calls with qty >= 1.  *)
C36_CompactPreserved ==
    [][(Compact(reserved) /\ ~ZeroReserve') => Compact(reserved')]_vars

(* a release that empties the claim, the claimant's map and the container's *)
(* map at once                                                              *)
C36_Witness ==
    /\ last.op = "release"
    /\ Compact(last.pre)
    /\ owner_reserved(last.pre, last.owner, last.chest, last.kind) \in 1..last.qty
    /\ last.chest \in DOMAIN last.pre
    /\ DOMAIN last.pre[last.chest] = {last.owner}
    /\ last.chest \notin DOMAIN reserved

----------------------------------------------------------------------------
(* The planner's reservation *)

(* agent u of world W is about to be planned an Acquire it cannot cover   *)
(* from its own inventory                                                  *)
AcquireDue(W, u) ==
    IF W.current_task[u].task = None THEN FALSE
    ELSE LET task == Unwrap(W.current_task[u].task)
         IN /\ task.status = "Pending"
            /\ task.kind = "GetItems"
            /\ task.quantity > count(W.unit_inv[u], task.item)

(* whenever find_best_chest names a container, the planner's try_reserve  *)
(* on it is granted: the task is Planned and the claim raised              *)
Granted(W, u, chest_order) ==
    AcquireDue(W, u) =>
        LET task == Unwrap(W.current_task[u].task)
            needed == task.quantity - count(W.unit_inv[u], task.item)
            found == find_best_chest(W.pos[u], needed, task.item, chest_order, W)
            W1 == plan_unit(W, u, chest_order)
        IN found # None =>
              /\ Unwrap(W1.current_task[u].task).status = "Planned"
              /\ owner_reserved(W1.reserved, u, Unwrap(found).ent, task.item)
                   > owner_reserved(W.reserved, u, Unwrap(found).ent, task.item)

(* C37: in the tick pipeline the try_reserve the planner makes right after *)
(* find_best_chest returned a container is always granted, for the agent   *)
(* planned first and for the agent planned after another one in the same   *)
(* run; the planner never fails a task over a refused reservation.         *)
C37_ReservationNeverRefused ==
    \A u \in Units, chest_order \in Orders(Chests) :
        /\ Granted(World, u, chest_order)
        /\ \A v \in Units \ {u}, first_order \in Orders(Chests) :
              (AcquireDue(World, u) /\ AcquireDue(World, v)) =>
                  Granted(plan_unit(World, v, first_order), u, chest_order)

(* the planner has run and both agents hold a claim on the same container, *)
(* the second granted on what the first one left                           *)
C37_Witness ==
    \E c \in Chests, k \in ItemKind :
        /\ "planner" \in done
        /\ \A u \in Units :
              /\ HasTask(u) /\ TaskOf(u).status = "Planned" /\ TaskOf(u).kind = "GetItems"
              /\ owner_reserved(reserved, u, c, k) >= 1
        /\ total_reserved(reserved, c, k) = count(chest_inv[c], k)

(* C38: in every reachable state of the tick pipeline, where container    *)
(* stock goes down only by the Takes the planner queued, the claims on a   *)
(* container and kind add up to no more than the container's stock.        *)
C38_ReservedWithinStock ==
    \A c \in Chests, k \in ItemKind :
        total_reserved(reserved, c, k) <= count(chest_inv[c], k)

----------------------------------------------------------------------------
(* Discrete tile movement: move_and_collide_units_system *)

Direction ==
    {"Null", "NorthWest", "North", "NorthEast", "East", "SouthEast", "South", "SouthWest",
     "West"}

delta(direction) ==
    CASE direction = "Null" -> Tile(0, 0)
      [] direction = "NorthWest" -> Tile(-1, 1)
      [] direction = "North" -> Tile(0, 1)
      [] direction = "NorthEast" -> Tile(1, 1)
      [] direction = "East" -> Tile(1, 0)
      [] direction = "SouthEast" -> Tile(1, -1)
      [] direction = "South" -> Tile(0, -1)
      [] direction = "SouthWest" -> Tile(-1, -1)
      [] direction = "West" -> Tile(-1, 0)

(* Direction::from *)
direction_from(d) ==
    IF \E direction \in Direction : delta(direction) = d
    THEN CHOOSE direction \in Direction : delta(direction) = d
    ELSE "Null"

Blocked == [success |-> FALSE]
Success(target_tile, new_direction) ==
    [success |-> TRUE, target_tile |-> target_tile, new_direction |-> new_direction]

(* the tiles of the units that carry UnitUnitCollisions, collected once *)
collect_occupied_tiles(units) ==
    {units[u].tile : u \in {v \in DOMAIN units : units[v].has_unit_collisions}}

can_move_to(tile, sm, occupied_tiles, has_unit_collisions) ==
    is_tile_passable(tile, sm) /\ (~has_unit_collisions \/ tile \notin occupied_tiles)

(* the movement timer: [ready, tick_counter after the call] *)
should_process_movement(tile_movement) ==
    IF tile_movement.direction = "Null"
    THEN [ready |-> FALSE, tick_counter |-> tile_movement.tick_counter]
    ELSE IF tile_movement.tick_counter + 1 >= tile_movement.ticks_per_tile
    THEN [ready |-> TRUE, tick_counter |-> 0]
    ELSE [ready |-> FALSE, tick_counter |-> tile_movement.tick_counter + 1]

is_diagonal_movement(d) == d[1] # 0 /\ d[2] # 0

(* TRUE when the diagonal is forbidden: both orthogonal tiles are blocked *)
handle_diagonal_movement(current_tile, desired_delta, sm, occupied_tiles, has_unit_collisions) ==
    LET tile_x == Tile(current_tile[1] + desired_delta[1], current_tile[2])
        tile_y == Tile(current_tile[1], current_tile[2] + desired_delta[2])
    IN /\ ~can_move_to(tile_x, sm, occupied_tiles, has_unit_collisions)
       /\ ~can_move_to(tile_y, sm, occupied_tiles, has_unit_collisions)

try_axis_movement(current_tile, desired_delta, sm, occupied_tiles, has_unit_collisions) ==
    LET axis_y_tile == Tile(current_tile[1], current_tile[2] + desired_delta[2])
        axis_x_tile == Tile(current_tile[1] + desired_delta[1], current_tile[2])
    IN IF can_move_to(axis_y_tile, sm, occupied_tiles, has_unit_collisions)
       THEN Success(axis_y_tile, direction_from(Tile(0, desired_delta[2])))
       ELSE IF can_move_to(axis_x_tile, sm, occupied_tiles, has_unit_collisions)
       THEN Success(axis_x_tile, direction_from(Tile(desired_delta[1], 0)))
       ELSE Blocked

calculate_movement(current_tile, desired_direction, sm, occupied_tiles, has_unit_collisions) ==
    LET desired_delta == delta(desired_direction)
        desired_target == Tile(current_tile[1] + desired_delta[1],
                               current_tile[2] + desired_delta[2])
    IN IF is_diagonal_movement(desired_delta)
          /\ handle_diagonal_movement(current_tile, desired_delta, sm, occupied_tiles,
                                      has_unit_collisions)
       THEN Blocked
       ELSE IF can_move_to(desired_target, sm, occupied_tiles, has_unit_collisions)
       THEN Success(desired_target, desired_direction)
       ELSE IF is_diagonal_movement(desired_delta)
       THEN try_axis_movement(current_tile, desired_delta, sm, occupied_tiles,
                              has_unit_collisions)
       ELSE Blocked

(* the body of the loop for one unit *)
move_one(unit, sm, occupied_tiles) ==
    LET timer == should_process_movement(unit)
        ticked == [unit EXCEPT !.tick_counter = timer.tick_counter]
        result == calculate_movement(unit.tile, unit.direction, sm, occupied_tiles,
                                     unit.has_unit_collisions)
    IN IF ~timer.ready THEN ticked
       ELSE IF result.success
       THEN [ticked EXCEPT !.tile = result.target_tile, !.direction = result.new_direction]
       ELSE [ticked EXCEPT !.direction = "Null"]

(* occupied_tiles is collected before the loop and not touched in it *)
move_and_collide_units_system(units, sm) ==
    LET occupied_tiles == collect_occupied_tiles(units)
    IN [u \in DOMAIN units |-> move_one(units[u], sm, occupied_tiles)]

(* A fenced yard, the units anywhere in it *)
YardWidth == 2
TicksPerTile == 2

Yard == {Tile(x, y) : x \in 0..(YardWidth - 1), y \in 0..1}
YardFence == {Tile(x, y) : x \in -1..YardWidth, y \in -1..2} \ Yard
TileMovements ==
    [tile : Yard, direction : Direction, tick_counter : 0..(TicksPerTile - 1),
     ticks_per_tile : {TicksPerTile}, has_unit_collisions : BOOLEAN]

(* units that carry UnitUnitCollisions stand on pairwise distinct tiles *)
Exclusive(units) ==
    \A u, v \in DOMAIN units :
        (u # v /\ units[u].has_unit_collisions /\ units[v].has_unit_collisions)
            => units[u].tile # units[v].tile

MoveAndCollide ==
    /\ last = NoCall
    /\ \E units \in [Units -> TileMovements] :
          /\ Exclusive(units)
          /\ last' = [op |-> "move_and_collide", pre |-> units,
                      post |-> move_and_collide_units_system(units, YardFence)]
    /\ UNCHANGED <<reserved, chest_inv, granted, lastStock, lastPosStock, pipelineVars>>

SpecMove == PathInit /\ [][MoveAndCollide]_vars

(* C39: units that carry UnitUnitCollisions and stand on pairwise         *)
(* distinct tiles before a tick stand on pairwise distinct tiles after     *)
(* move_and_collide_units_system has run, whatever their directions and    *)
(* timers.                                                                 *)
C39_TileExclusivity ==
    last.op = "move_and_collide" => Exclusive(last.post)

====
